---- MODULE Spec2Model ----
(***************************************************************************)
(* Product-Scrapper: the ProductScraper orchestration engine.              *)
(*                                                                         *)
(* Pool variant  : src/unnamed/part_000 (worker pool + retry wrapper).     *)
(* Batch variant : src/src/utils.ts     (fixed chunks, no retry).          *)
(*                                                                         *)
(* JavaScript strings are modelled as sequences of one-character strings,  *)
(* so that trim / includes / replace / split are computed, not assumed.    *)
(* One action is one run-to-completion step of the event loop: the code    *)
(* between two awaits whose promise is settled by the browser or a timer.  *)
(***************************************************************************)
EXTENDS Integers, Sequences, FiniteSets, TLC

(***************************************************************************)
(* String literals of the source.                                          *)
(***************************************************************************)
STR_Amazon ==
    <<"A","m","a","z","o","n">>

STR_Walmart ==
    <<"W","a","l","m","a","r","t">>

FALLBACK_DESCRIPTION ==
    <<"F","A","I","L","E","D">>

STR_ERROR ==
    <<"E","R","R","O","R">>

STR_RobotCheck ==
    <<"R","o","b","o","t"," ","C","h","e","c","k">>

STR_FAILED_after ==
    <<"F","A","I","L","E","D"," ","a","f","t","e","r"," ">>

STR_Failed_after ==
    <<"F","a","i","l","e","d"," ","a","f","t","e","r"," ">>

STR_attempts ==
    <<" ","a","t","t","e","m","p","t","s">>

MSG_BrowserNotInitialized ==
    <<"B","r","o","w","s","e","r"," ","n","o","t"," ","i","n","i","t","i","a","l","i","z","e","d">>

MSG_TemporaryFailure ==
    <<"T","e","m","p","o","r","a","r","y"," ","F","a","i","l","u","r","e">>

MSG_BrowserNotReady ==
    <<"B","r","o","w","s","e","r"," ","n","o","t"," ","r","e","a","d","y">>

MSG_SelectorsNotMapped ==
    <<"S","e","l","e","c","t","o","r","s"," ","n","o","t"," ","m","a","p","p","e","d">>

MSG_NoResponse ==
    <<"N","o"," ","R","e","s","p","o","n","s","e">>

MSG_PageNotFound404 ==
    <<"P","a","g","e"," ","N","o","t"," ","F","o","u","n","d"," ","(","4","0","4",")">>

STR_HTTPError ==
    <<"H","T","T","P"," ","E","r","r","o","r",":"," ">>

MSG_AntiBot ==
    <<"A","n","t","i","-","b","o","t"," ","d","e","t","e","c","t","e","d"," ","o","r"," ","I","n","v","a","l","i","d"," ","P","a","g","e">>

MSG_TitleTimeout ==
    <<"T","i","m","e","o","u","t",":"," ","P","r","o","d","u","c","t"," ","t","i","t","l","e"," ","n","e","v","e","r"," ","a","p","p","e","a","r","e","d"," ","o","n"," ","s","c","r","e","e","n">>

STR_CurrentlyUnavailable ==
    <<"C","u","r","r","e","n","t","l","y"," ","u","n","a","v","a","i","l","a","b","l","e">>

MSG_Unavailable ==
    <<"P","r","o","d","u","c","t"," ","C","u","r","r","e","n","t","l","y"," ","U","n","a","v","a","i","l","a","b","l","e">>

MSG_ValidationFailed ==
    <<"V","a","l","i","d","a","t","i","o","n"," ","F","a","i","l","e","d",":"," ","C","o","n","t","e","n","t"," ","l","o","a","d","e","d"," ","b","u","t"," ","T","i","t","l","e"," ","i","s"," ","e","m","p","t","y">>

MSG_SoftDetection ==
    <<"S","o","f","t"," ","d","e","t","e","c","t","i","o","n"," ","o","r"," ","c","o","n","t","e","n","t"," ","l","o","a","d"," ","f","a","i","l","u","r","e">>

STR_out_of ==
    <<"o","u","t"," ","o","f">>

URL_Walmart ==
    <<"h","t","t","p","s",":","/","/","w","w","w",".","w","a","l","m","a","r","t",".","c","o","m","/","i","p","/">>

URL_Amazon ==
    <<"h","t","t","p","s",":","/","/","w","w","w",".","a","m","a","z","o","n",".","c","o","m","/","d","p","/">>

UpperCase ==
    <<"A","B","C","D","E","F","G","H","I","J","K","L","M","N","O","P","Q","R","S","T","U","V","W","X","Y","Z">>

LowerCase ==
    <<"a","b","c","d","e","f","g","h","i","j","k","l","m","n","o","p","q","r","s","t","u","v","w","x","y","z">>

DigitChars ==
    <<"0","1","2","3","4","5","6","7","8","9">>

KW_Robot ==
    <<"R","o","b","o","t">>

KW_Captcha ==
    <<"C","a","p","t","c","h","a">>

KW_Sorry ==
    <<"S","o","r","r","y">>

KW_PageNotFound ==
    <<"P","a","g","e"," ","N","o","t"," ","F","o","u","n","d">>

(***************************************************************************)
(* CONFIG (pool variant).                                                   *)
(***************************************************************************)
CONCURRENCY_LIMIT == 3

MAX_RETRIES == 3

DESCRIPTION_MAX_LENGTH == 500

\* CONFIG as the pool variant exports it (the keys the model reads)
CONFIG_Pool ==
    [ CONCURRENCY_LIMIT |-> CONCURRENCY_LIMIT,
      MAX_RETRIES       |-> MAX_RETRIES,
      DESCRIPTION_MAX_LENGTH |-> DESCRIPTION_MAX_LENGTH ]

\* CONFIG as the batch variant exports it: it has no MAX_RETRIES
CONFIG_Batch ==
    [ LOCATOR_TIMEOUT   |-> 10000,
      PAGE_TIMEOUT      |-> 30000,
      CONCURRENCY_LIMIT |-> 3,
      VIEWPORT          |-> [width |-> 1920, height |-> 1080] ]

EMPTY_STRING == <<>>

(***************************************************************************)
(* Bounds of the model.                                                    *)
(***************************************************************************)
\* longest descriptor list handed to processSKUs
MaxSkus == 4

\* longest descriptor list handed to the batch variant's processSKUs
MaxBatch == 4

\* how many invocations of init() can be under way at once
MaxCallers == 3

\* how many times init() is invoked in all
MaxInits == 4

\* how many contexts the environment may cause to be left open (by failing
\* context.route, page.close or context.close)
MaxLeaks == 1

\* longest descriptor list in the runs that observe each attempt's behaviour
MaxObserved == 1

\* longest descriptor list handed to processSKUs in the runs that close() joins
MaxClosing == 2

\* longest descriptor list of the runs that follow the context objects
MaxContexts == 2

(***************************************************************************)
(* String helpers (String.prototype.* as used by the source).              *)
(***************************************************************************)
Min(a, b) == IF a < b THEN a ELSE b

\* \s of the regular expressions and of String.prototype.trim
IsSpace(c) == c \in {" ", "\t", "\n", "\r"}

\* \d
IsDigit(c) == \E k \in 1..Len(DigitChars) : DigitChars[k] = c

RECURSIVE TrimStart(_)
TrimStart(s) ==
    IF s = <<>> THEN <<>>
    ELSE IF IsSpace(Head(s)) THEN TrimStart(Tail(s)) ELSE s

RECURSIVE TrimEnd(_)
TrimEnd(s) ==
    IF s = <<>> THEN <<>>
    ELSE IF IsSpace(s[Len(s)]) THEN TrimEnd(SubSeq(s, 1, Len(s) - 1)) ELSE s

\* String.prototype.trim
Trim(s) == TrimEnd(TrimStart(s))

\* s.startsWith(p)
StartsWith(s, p) == Len(p) <= Len(s) /\ SubSeq(s, 1, Len(p)) = p

\* s.indexOf(p), 1-based; 0 when p does not occur
IndexOf(s, p) ==
    LET hits == { k \in 1..(Len(s) - Len(p) + 1) : SubSeq(s, k, k + Len(p) - 1) = p }
    IN  IF hits = {} THEN 0 ELSE CHOOSE k \in hits : \A j \in hits : k <= j

\* s.includes(p)
Includes(s, p) == IndexOf(s, p) # 0

\* one character folded to lower case (the /i flag)
LowerChar(c) ==
    IF \E k \in 1..Len(UpperCase) : UpperCase[k] = c
    THEN LowerCase[CHOOSE k \in 1..Len(UpperCase) : UpperCase[k] = c]
    ELSE c

ToLower(s) == [k \in 1..Len(s) |-> LowerChar(s[k])]

\* case-insensitive s.includes(p)
IncludesNoCase(s, p) == Includes(ToLower(s), ToLower(p))

\* Number.prototype.toString for naturals (template literals `${n}`)
RECURSIVE NumToStr(_)
NumToStr(n) ==
    IF n < 10 THEN <<DigitChars[n + 1]>>
    ELSE NumToStr(n \div 10) \o <<DigitChars[(n % 10) + 1]>>

\* s.replace(/\s+/g, ' ')
RECURSIVE CollapseSpaces(_)
CollapseSpaces(s) ==
    IF s = <<>> THEN <<>>
    ELSE IF IsSpace(Head(s))
         THEN <<" ">> \o CollapseSpaces(TrimStart(s))
         ELSE <<Head(s)>> \o CollapseSpaces(Tail(s))

(***************************************************************************)
(* Selector catalog (SELECTORS_MAP).                                       *)
(***************************************************************************)
STR_script ==
    <<"s","c","r","i","p","t">>

STR_meta ==
    <<"m","e","t","a">>

SELECTORS_Amazon ==
    [ title |-> <<
          \* #productTitle
          <<"#","p","r","o","d","u","c","t","T","i","t","l","e">>,
          \* #title
          <<"#","t","i","t","l","e">>,
          \* .qa-title-text
          <<".","q","a","-","t","i","t","l","e","-","t","e","x","t">> >>,
      description |-> <<
          \* #productDescription
          <<"#","p","r","o","d","u","c","t","D","e","s","c","r","i","p","t","i","o","n">>,
          \* #feature-bullets
          <<"#","f","e","a","t","u","r","e","-","b","u","l","l","e","t","s">> >>,
      price |-> <<
          \* .a-price .a-offscreen
          <<".","a","-","p","r","i","c","e"," ",".","a","-","o","f","f","s","c","r","e","e","n">>,
          \* #corePriceDisplay_desktop_feature_div span
          <<"#","c","o","r","e","P","r","i","c","e","D","i","s","p","l","a","y","_","d","e","s","k","t","o","p","_","f","e","a","t","u","r","e","_","d","i","v"," ","s","p","a","n">>,
          \* .a-color-price
          <<".","a","-","c","o","l","o","r","-","p","r","i","c","e">> >>,
      reviews |-> <<
          \* #acrCustomerReviewText
          <<"#","a","c","r","C","u","s","t","o","m","e","r","R","e","v","i","e","w","T","e","x","t">>,
          \* #acrCustomerReviewLink
          <<"#","a","c","r","C","u","s","t","o","m","e","r","R","e","v","i","e","w","L","i","n","k">> >>,
      rating |-> <<
          \* i.a-icon-star span
          <<"i",".","a","-","i","c","o","n","-","s","t","a","r"," ","s","p","a","n">>,
          \* span[data-hook="rating-out-of-text"]
          <<"s","p","a","n","[","d","a","t","a","-","h","o","o","k","=","\"","r","a","t","i","n","g","-","o","u","t","-","o","f","-","t","e","x","t","\"","]">>,
          \* .a-icon-alt
          <<".","a","-","i","c","o","n","-","a","l","t">> >> ]

SELECTORS_Walmart ==
    [ title |-> <<
          \* h1
          <<"h","1">>,
          \* [itemprop="name"]
          <<"[","i","t","e","m","p","r","o","p","=","\"","n","a","m","e","\"","]">> >>,
      description |-> <<
          \* meta[name="description"]
          <<"m","e","t","a","[","n","a","m","e","=","\"","d","e","s","c","r","i","p","t","i","o","n","\"","]">> >>,
      price |-> <<
          \* [itemprop="price"]
          <<"[","i","t","e","m","p","r","o","p","=","\"","p","r","i","c","e","\"","]">>,
          \* .price-display .display-price
          <<".","p","r","i","c","e","-","d","i","s","p","l","a","y"," ",".","d","i","s","p","l","a","y","-","p","r","i","c","e">>,
          \* [data-testid="price-wrap"]
          <<"[","d","a","t","a","-","t","e","s","t","i","d","=","\"","p","r","i","c","e","-","w","r","a","p","\"","]">> >>,
      reviews |-> <<
          \* script[data-seo-id="schema-org-product"]
          <<"s","c","r","i","p","t","[","d","a","t","a","-","s","e","o","-","i","d","=","\"","s","c","h","e","m","a","-","o","r","g","-","p","r","o","d","u","c","t","\"","]">>,
          \* .rating-number
          <<".","r","a","t","i","n","g","-","n","u","m","b","e","r">>,
          \* [data-testid="reviews-count"]
          <<"[","d","a","t","a","-","t","e","s","t","i","d","=","\"","r","e","v","i","e","w","s","-","c","o","u","n","t","\"","]">>,
          \* .w_D
          <<".","w","_","D">> >>,
      rating |-> <<
          \* script[data-seo-id="schema-org-product"]
          <<"s","c","r","i","p","t","[","d","a","t","a","-","s","e","o","-","i","d","=","\"","s","c","h","e","m","a","-","o","r","g","-","p","r","o","d","u","c","t","\"","]">>,
          \* [data-testid="average-rating"]
          <<"[","d","a","t","a","-","t","e","s","t","i","d","=","\"","a","v","e","r","a","g","e","-","r","a","t","i","n","g","\"","]">>,
          \* .rating-number
          <<".","r","a","t","i","n","g","-","n","u","m","b","e","r">> >> ]

\* SELECTORS_MAP[type] is undefined for a type outside its DOMAIN
SELECTORS_MAP ==
    (STR_Amazon :> SELECTORS_Amazon) @@ (STR_Walmart :> SELECTORS_Walmart)

(***************************************************************************)
(* Records built by the scraper.                                           *)
(***************************************************************************)
\* variant: the failure sentinel is left out of the description
createFallbackProductNoSentinel(sku, reason) ==
    [ SKU             |-> sku.SKU,
      Source          |-> sku.Type,
      Title           |-> reason,
      Description     |-> EMPTY_STRING,
      Price           |-> EMPTY_STRING,
      NumberOfReviews |-> EMPTY_STRING,
      Rating          |-> EMPTY_STRING ]

createFallbackProduct(sku, reason) ==
    [ SKU             |-> sku.SKU,
      Source          |-> sku.Type,
      Title           |-> reason,
      Description     |-> FALLBACK_DESCRIPTION,
      Price           |-> EMPTY_STRING,
      NumberOfReviews |-> EMPTY_STRING,
      Rating          |-> EMPTY_STRING ]

\* a thrown Error / a returned Product, as seen by the awaiting caller
Thrown(msg) == [kind |-> "error", message |-> msg]

Returned(product) == [kind |-> "product", product |-> product]

(***************************************************************************)
(* Page interaction protocol (pure in the page's behaviour).               *)
(*                                                                         *)
(* A page is a record describing how the live page answers:                *)
(*   gotoThrows   page.goto rejects (timeout, network error)               *)
(*   status       HTTP status of the response, 0 for a null response       *)
(*   docTitle     document title read by page.title()                      *)
(*   softBlockThrows, humanizeThrows                                       *)
(*                a browser call inside the best-effort stage rejects      *)
(*   dom          selector -> element [visible, text, content, throws,     *)
(*                json]; selectors outside DOMAIN match no element         *)
(*   bodyText     innerText of <body>                                      *)
(*   name         a label for the behaviour, used only to observe it       *)
(***************************************************************************)
MSG_GotoFailed ==
    <<"p","a","g","e",".","g","o","t","o",":"," ","T","i","m","e","o","u","t">>

\* variant: the two templates the wrong way round
resolveProductUrlSwapped(sku) ==
    IF sku.Type = STR_Walmart
    THEN URL_Amazon \o sku.SKU
    ELSE URL_Walmart \o sku.SKU

resolveProductUrl(sku) ==
    IF sku.Type = STR_Walmart
    THEN URL_Walmart \o sku.SKU
    ELSE URL_Amazon \o sku.SKU

\* how a stage ends: it returns, or it throws an Error with a message
Ok == [threw |-> FALSE, message |-> <<>>]

Throw(msg) == [threw |-> TRUE, message |-> msg]

\* variant: `> 400` for `> 399`
navigateToPageAbove400(page) ==
    IF page.gotoThrows THEN Throw(MSG_GotoFailed)
    ELSE IF page.status = 0 THEN Throw(MSG_NoResponse)
    ELSE IF page.status = 404 THEN Throw(MSG_PageNotFound404)
    ELSE IF page.status > 400 THEN Throw(STR_HTTPError \o NumToStr(page.status))
    ELSE Ok

navigateToPage(page) ==
    IF page.gotoThrows THEN Throw(MSG_GotoFailed)
    ELSE IF page.status = 0 THEN Throw(MSG_NoResponse)
    ELSE IF page.status = 404 THEN Throw(MSG_PageNotFound404)
    ELSE IF page.status > 399 THEN Throw(STR_HTTPError \o NumToStr(page.status))
    ELSE Ok

\* variant: the try/catch around the dismissal is missing
handleAmazonBlockUncaught(page) ==
    IF page.softBlockThrows
    THEN Throw(<<"l","o","c","a","t","o","r",".","c","l","i","c","k",":"," ","T","i","m","e","o","u","t">>)
    ELSE Ok

\* try { isVisible; click; waitForLoadState; randomDelay } catch (e) { }
handleAmazonBlock(page) ==
    IF page.softBlockThrows THEN Ok ELSE Ok

\* try { findWalmartCaptcha; resolveWalmartCaptcha } catch (e) { log }
handleWalmartBlock(page) ==
    IF page.softBlockThrows THEN Ok ELSE Ok

handleSoftBlock(page, sku) ==
    IF sku.Type = STR_Amazon THEN handleAmazonBlock(page)
    ELSE IF sku.Type = STR_Walmart THEN handleWalmartBlock(page)
    ELSE Ok

\* /Robot|Captcha|Sorry|Page Not Found/i.test(title)
checkForBotDetection(page) ==
    IF \/ IncludesNoCase(page.docTitle, KW_Robot)
       \/ IncludesNoCase(page.docTitle, KW_Captcha)
       \/ IncludesNoCase(page.docTitle, KW_Sorry)
       \/ IncludesNoCase(page.docTitle, KW_PageNotFound)
    THEN Throw(MSG_AntiBot)
    ELSE Ok

\* try { move; wheel; randomDelay } catch { }
humanizeInteraction(page) ==
    IF page.humanizeThrows THEN Ok ELSE Ok

\* page.waitForSelector(selectors.title.join(','), {state: 'visible'})
waitForProductContent(page, selectors) ==
    IF \E k \in 1..Len(selectors.title) :
          /\ selectors.title[k] \in DOMAIN page.dom
          /\ page.dom[selectors.title[k]].visible
    THEN Ok
    ELSE Throw(MSG_TitleTimeout)

(***************************************************************************)
(* Field extraction (extractData and its getTextFromSelectors closure).    *)
(***************************************************************************)
\* JSON.parse(scriptContent) followed by the aggregateRating lookup:
\* the value's toString(), or <<>> when parsing throws or the path is falsy.
\* el.json = [valid |-> parse succeeds, items |-> <<obj, ...>>]: the parsed
\* document if it is an object (one item), or its elements if it is an array;
\* obj = [hasAggregate, ratingValue, reviewCount], the two values already as
\* their toString(), <<>> for a missing or falsy one.
JsonLookup(el, dataType) ==
    LET json == el.json
    IN  IF ~json.valid \/ json.items = <<>> THEN <<>>
        ELSE LET data == json.items[1]
             IN  IF ~data.hasAggregate THEN <<>>
                 ELSE IF dataType = "rating" THEN data.ratingValue
                 ELSE IF dataType = "reviews" THEN data.reviewCount
                 ELSE <<>>

\* one iteration of the for loop: [done |-> TRUE, value |-> v] on return,
\* [done |-> FALSE] when the loop goes on to the next selector
TrySelector(page, sel, dataType) ==
    LET missing == sel \notin DOMAIN page.dom
        el      == page.dom[sel]
        next    == [done |-> FALSE, value |-> <<>>]
        ret(v)  == [done |-> TRUE, value |-> v]
        plain   == IF missing THEN next
                   ELSE IF el.visible
                        THEN (IF el.throws THEN next ELSE ret(el.text))
                        ELSE next
        meta    == IF StartsWith(sel, STR_meta)
                   THEN IF missing THEN next
                        ELSE IF el.content # <<>> THEN ret(el.content)
                        ELSE plain
                   ELSE plain
    IN  IF StartsWith(sel, STR_script)
        THEN IF missing THEN next
             ELSE IF el.text # <<>> /\ JsonLookup(el, dataType) # <<>>
                  THEN ret(JsonLookup(el, dataType))
                  ELSE meta
        ELSE meta

\* variant: the loop gives up after the first candidate
getTextFromSelectorsFirstOnly(page, selectorList, dataType) ==
    IF selectorList = <<>> THEN EMPTY_STRING
    ELSE TrySelector(page, Head(selectorList), dataType).value

RECURSIVE getTextFromSelectors(_, _, _)
getTextFromSelectors(page, selectorList, dataType) ==
    IF selectorList = <<>> THEN EMPTY_STRING
    ELSE LET r == TrySelector(page, Head(selectorList), dataType)
         IN  IF r.done THEN r.value
             ELSE getTextFromSelectors(page, Tail(selectorList), dataType)

\* variant: title.trim(), the sentinel forgotten
CleanTitleNoSentinel(title) == Trim(title)

\* variant: title || "ERROR", the trim forgotten
CleanTitleUntrimmed(title) ==
    IF title = <<>> THEN STR_ERROR ELSE title

\* title.trim() || "ERROR"
CleanTitle(title) ==
    IF Trim(title) = <<>> THEN STR_ERROR ELSE Trim(title)

\* description.slice(0, 500).replace(/\s+/g, ' ').trim()
CleanDescription(description) ==
    Trim(CollapseSpaces(SubSeq(description, 1,
                               Min(Len(description), DESCRIPTION_MAX_LENGTH))))

IsDigitOrDot(c) == IsDigit(c) \/ c = "."

\* variant: the g flag forgotten, only the first offending character goes
CleanPriceFirstOnly(price) ==
    IF \A k \in 1..Len(price) : IsDigitOrDot(price[k]) THEN price
    ELSE LET k == CHOOSE k \in 1..Len(price) :
                     /\ ~IsDigitOrDot(price[k])
                     /\ \A j \in 1..(k - 1) : IsDigitOrDot(price[j])
         IN  SubSeq(price, 1, k - 1) \o SubSeq(price, k + 1, Len(price))

\* price.replace(/[^0-9.]/g, '')
CleanPrice(price) == SelectSeq(price, IsDigitOrDot)

\* reviews.replace(/\D/g, '')
CleanReviews(reviews) == SelectSeq(reviews, IsDigit)

\* rating.split('out of')[0].trim().replace(/[^\d.]/g, '')
CleanRating(rating) ==
    LET k     == IndexOf(rating, STR_out_of)
        first == IF k = 0 THEN rating ELSE SubSeq(rating, 1, k - 1)
    IN  SelectSeq(Trim(first), IsDigitOrDot)

extractData(page, selectors) ==
    [ Title           |-> CleanTitle(getTextFromSelectors(page, selectors.title, "none")),
      Description     |-> CleanDescription(getTextFromSelectors(page, selectors.description, "none")),
      Price           |-> CleanPrice(getTextFromSelectors(page, selectors.price, "none")),
      NumberOfReviews |-> CleanReviews(getTextFromSelectors(page, selectors.reviews, "reviews")),
      Rating          |-> CleanRating(getTextFromSelectors(page, selectors.rating, "rating")) ]

\* variant: the look at the body text is missing
validateExtractedDataGenericOnly(data, page) ==
    IF data.Title = <<>> THEN Throw(MSG_ValidationFailed) ELSE Ok

validateExtractedData(data, page) ==
    IF data.Title = <<>>
    THEN IF Includes(page.bodyText, STR_CurrentlyUnavailable)
         THEN Throw(MSG_Unavailable)
         ELSE Throw(MSG_ValidationFailed)
    ELSE Ok

\* the stages in the order the code awaits them; the first one that throws
\* ends the attempt
fetchProductData(page, sku) ==
    IF sku.Type \notin DOMAIN SELECTORS_MAP THEN Thrown(MSG_SelectorsNotMapped)
    ELSE LET selectors == SELECTORS_MAP[sku.Type]
             data      == extractData(page, selectors)
         IN  IF navigateToPage(page).threw
                THEN Thrown(navigateToPage(page).message)
             ELSE IF handleSoftBlock(page, sku).threw
                THEN Thrown(handleSoftBlock(page, sku).message)
             ELSE IF checkForBotDetection(page).threw
                THEN Thrown(checkForBotDetection(page).message)
             ELSE IF humanizeInteraction(page).threw
                THEN Thrown(humanizeInteraction(page).message)
             ELSE IF waitForProductContent(page, selectors).threw
                THEN Thrown(waitForProductContent(page, selectors).message)
             ELSE IF validateExtractedData(data, page).threw
                THEN Thrown(validateExtractedData(data, page).message)
             ELSE Returned([ SKU             |-> sku.SKU,
                             Source          |-> sku.Type,
                             Title           |-> data.Title,
                             Description     |-> data.Description,
                             Price           |-> data.Price,
                             NumberOfReviews |-> data.NumberOfReviews,
                             Rating          |-> data.Rating ])

(***************************************************************************)
(* The environment: descriptor lists handed to processSKUs and the ways a  *)
(* live page can answer.                                                   *)
(***************************************************************************)
\* a retailer tag with no entry in SELECTORS_MAP
STR_Target ==
    <<"T","a","r","g","e","t">>

\* the descriptor lists: every list of at most MaxSkus descriptors in which
\* the retailer tags appear in a fixed rotation (so that longer lists repeat
\* a descriptor)
Rotation(first, n) ==
    LET order == <<[Type |-> STR_Amazon,  SKU |-> <<"B","0">>],
                   [Type |-> STR_Target,  SKU |-> <<"B","0">>],
                   [Type |-> STR_Walmart, SKU |-> <<"9","8">>]>>
    IN  [k \in 1..n |-> order[((first + k - 2) % 3) + 1]]

InputLists(firsts, maxLen) == { Rotation(first, n) : first \in firsts, n \in 0..maxLen }

NoJson == [valid |-> FALSE, items |-> <<>>]

\* a visible element with the given innerText
Visible(text) ==
    [visible |-> TRUE, text |-> text, content |-> <<>>, throws |-> FALSE, json |-> NoJson]

\* the DOM of a loaded product page, for either retailer's selectors
ProductDom(titleText) ==
      (SELECTORS_Amazon.title[1]   :> Visible(titleText))
   @@ (SELECTORS_Amazon.price[1]   :> Visible(<<"$","1","2",".","5","0">>))
   @@ (SELECTORS_Amazon.reviews[1] :> Visible(<<"1",",","2","3","4"," ","r","a","t","i","n","g","s">>))
   @@ (SELECTORS_Amazon.rating[1]  :> Visible(<<"4",".","5"," ","o","u","t"," ","o","f"," ","5">>))
   @@ (SELECTORS_Walmart.title[1]  :> Visible(titleText))
   @@ (SELECTORS_Walmart.description[1] :>
          [visible |-> FALSE, text |-> <<>>, content |-> <<"A"," "," ","f","i","n","e"," ","w","i","d","g","e","t"," ">>,
           throws |-> FALSE, json |-> NoJson])
   @@ (SELECTORS_Walmart.price[1]  :> Visible(<<"$","1","2",".","5","0">>))
   @@ (SELECTORS_Walmart.reviews[1] :>
          [visible |-> FALSE, text |-> <<"{","}">>, content |-> <<>>, throws |-> FALSE,
           json |-> [valid |-> TRUE,
                     items |-> <<[hasAggregate |-> TRUE, ratingValue |-> <<"4",".","5">>,
                                  reviewCount |-> <<"1","2","3","4">>]>>]])

EmptyDom == [sel \in {} |-> Visible(<<>>)]

GoodPage ==
    [ name            |-> "good",
      gotoThrows      |-> FALSE,
      status          |-> 200,
      docTitle        |-> <<"W","i","d","g","e","t"," ","-"," ","S","h","o","p">>,
      softBlockThrows |-> FALSE,
      humanizeThrows  |-> FALSE,
      dom             |-> ProductDom(<<" ","W","i","d","g","e","t"," ">>),
      bodyText        |-> <<"W","i","d","g","e","t">> ]

Pages ==
    { GoodPage,
      [GoodPage EXCEPT !.name = "softBlockThrows", !.softBlockThrows = TRUE],
      [GoodPage EXCEPT !.name = "humanizeThrows", !.humanizeThrows = TRUE],
      [GoodPage EXCEPT !.name = "gotoThrows", !.gotoThrows = TRUE],
      [GoodPage EXCEPT !.name = "noResponse", !.status = 0],
      [GoodPage EXCEPT !.name = "status404", !.status = 404],
      [GoodPage EXCEPT !.name = "status503", !.status = 503],
      [GoodPage EXCEPT !.name = "botTitle",
                       !.docTitle = <<"r","o","b","o","t"," ","c","h","e","c","k">>],
      \* no title candidate ever becomes visible
      [GoodPage EXCEPT !.name = "titleTimeout", !.dom = EmptyDom],
      \* the product title element is there but blank; the body says unavailable
      [GoodPage EXCEPT !.name = "unavailable",
                       !.dom = ProductDom(<<" "," "," ">>),
                       !.bodyText = <<"C","u","r","r","e","n","t","l","y"," ","u","n","a","v","a","i","l","a","b","l","e",".">>],
      [GoodPage EXCEPT !.name = "blankTitle", !.dom = ProductDom(<<" "," "," ">>)],
      \* a block page served under an ordinary document title
      [GoodPage EXCEPT !.name = "robotCheckTitle",
                       !.dom = ProductDom(<<"R","o","b","o","t"," ","C","h","e","c","k">>)] }

\* longest raw field text, in tokens, handed to the cleaning transforms
MaxTokens == 3

RECURSIVE Concat(_)
Concat(seqs) == IF seqs = <<>> THEN <<>> ELSE Head(seqs) \o Concat(Tail(seqs))

\* the raw texts a candidate can give for a field: every string of at most
\* MaxTokens tokens out of digits, '.', ' ', '$', ',' and 'out of'
RawTexts ==
    LET Tokens == { <<"4">>, <<"5">>, <<".">>, <<" ">>, <<"$">>, <<",">>, STR_out_of }
    IN  { Concat(t) : t \in UNION { [1..n -> Tokens] : n \in 0..MaxTokens } }

\* how many leading candidates of a selector list the pages below vary
MaxVaried == 3

\* the pages fetchProductData is followed on: the behaviours of Pages, and for
\* every selector list of the catalog the loaded pages on which each of its
\* leading candidates is, independently, missing, hidden, visible with empty
\* text, visible with text, visible but failing to give its text, or hidden
\* and carrying a value (content attribute and JSON-LD aggregateRating)
ProtocolPages ==
    LET States == {"missing", "hidden", "blank", "shown", "raises", "value"}
        Text(k) == <<" ">> \o NumToStr(k) \o <<".","5","0"," ","u","s","d">>
        Element(st, k) ==
            [ visible |-> st \in {"blank", "shown", "raises"},
              text    |-> IF st = "blank" THEN <<>> ELSE Text(k),
              content |-> IF st = "value" THEN NumToStr(k) \o <<".","7">> ELSE <<>>,
              throws  |-> st = "raises",
              json    |-> IF st = "value"
                          THEN [valid |-> TRUE,
                                items |-> <<[hasAggregate |-> TRUE,
                                             ratingValue  |-> NumToStr(k) \o <<".","9">>,
                                             reviewCount  |-> NumToStr(k) \o <<"0","0">>]>>]
                          ELSE NoJson ]
        base == ProductDom(<<"W","i","d","g","e","t">>)
        Dom(list, n, a) ==
            LET varied  == { list[k] : k \in 1..n }
                present == { list[k] : k \in { m \in 1..n : a[m] # "missing" } }
                idx(sel) == CHOOSE k \in 1..n : list[k] = sel
            IN  [ sel \in ((DOMAIN base) \ varied) \cup present |->
                    IF sel \in present THEN Element(a[idx(sel)], idx(sel)) ELSE base[sel] ]
        Lists == UNION { { SELECTORS_MAP[t].title, SELECTORS_MAP[t].description,
                           SELECTORS_MAP[t].price, SELECTORS_MAP[t].reviews,
                           SELECTORS_MAP[t].rating } : t \in DOMAIN SELECTORS_MAP }
    IN  Pages \cup
        UNION { { [GoodPage EXCEPT !.name = "candidates",
                                   !.dom = Dom(list, Min(Len(list), MaxVaried), a)] :
                    a \in [1..Min(Len(list), MaxVaried) -> States] } : list \in Lists }

\* no call of fetchProductData is being followed
NoRun ==
    LET nothing == [Title |-> <<>>, Description |-> <<>>, Price |-> <<>>,
                    NumberOfReviews |-> <<>>, Rating |-> <<>>]
    IN  [ stage   |-> "idle",
          sku     |-> [Type |-> <<>>, SKU |-> <<>>],
          page    |-> GoodPage,
          trace   |-> <<>>,
          raw     |-> nothing,
          data    |-> nothing,
          outcome |-> [kind |-> "none", message |-> <<>>] ]

(***************************************************************************)
(* State.                                                                  *)
(***************************************************************************)
VARIABLES
    skus,           \* the argument of processSKUs
    browser,        \* this.browser: "null" or "open"
    loopPc,         \* processSKUs: "init", "race", "returned", "rejected"
    queue,          \* queue: the descriptors (by input position) not yet admitted
    activeWorkers,  \* activeWorkers: the worker promises, named by their item
    raceOn,         \* the promises handed to the pending Promise.race
    results,        \* results
    errorLog,       \* lines written to errorStream
    pc,             \* per item: where its scrapeWithRetry / worker chain stands
    attempt,        \* per item: scrapeWithRetry's attempt
    context,        \* per item: scrapeSingleSKU's local `context`
    leaked,         \* contexts still open although their attempt has ended
    leaksLeft,      \* how many more contexts the environment may cause to leak
    observe,        \* whether this run records each attempt's behaviour in seen
    seen,           \* per item: the behaviour met by all its attempts so far
    closePc,        \* close(): "idle", "closing", "closed", "rejected"
    errorStream,    \* this.errorStream: "open" (writable) or "ended"
    follow,         \* whether this run follows the identity of the context objects
    created,        \* how many context objects browser.newContext() has returned
    contextId,      \* per item: which context object its `context` refers to (0: none)
    run,            \* one call of fetchProductData followed stage by stage
    batch,          \* processSKUs (batch variant): its loop index i, and per item
                    \* the product its scrapeSingleSKU promise resolved with
    inits           \* init(): per invocation where it stands, the browsers launched
                    \* so far, and the one this.browser refers to (0: null)

vars == <<skus, browser, loopPc, queue, activeWorkers, raceOn, results, errorLog,
          pc, attempt, context, leaked, leaksLeft, observe, seen, closePc, errorStream,
          follow, created, contextId, run, batch, inits>>

\* the scraper and its pool: everything but the stage-by-stage run
scraperVars == <<skus, browser, loopPc, queue, activeWorkers, raceOn, results, errorLog,
                 pc, attempt, context, leaked, leaksLeft, observe, seen, closePc,
                 errorStream, follow, created, contextId, batch, inits>>

\* everything init() leaves alone but this.browser
scraperVarsButInits == <<skus, browser, loopPc, queue, activeWorkers, raceOn, results,
                         errorLog, pc, attempt, context, leaked, leaksLeft, observe, seen,
                         closePc, errorStream, follow, created, contextId, batch, run>>

\* what only close() touches
closeVars == <<closePc, errorStream>>

\* the identities of the context objects
ctxVars == <<follow, created, contextId>>

Items == 1..Len(skus)

InitFollowing(fol, obs, firsts, maxLen, maxLeaks) ==
    /\ skus \in InputLists(firsts, maxLen)
    /\ browser = "null"
    /\ loopPc = "init"
    /\ queue = <<>>
    /\ activeWorkers = <<>>
    /\ raceOn = {}
    /\ results = <<>>
    /\ errorLog = <<>>
    /\ pc = [i \in 1..Len(skus) |-> "queued"]
    /\ attempt = [i \in 1..Len(skus) |-> 0]
    /\ context = [i \in 1..Len(skus) |-> "null"]
    /\ leaked = 0
    /\ leaksLeft = maxLeaks
    /\ observe = obs
    /\ seen = [i \in 1..Len(skus) |-> "none"]
    /\ closePc = "idle"
    /\ errorStream = "open"
    /\ follow = fol
    /\ created = 0
    /\ contextId = [i \in 1..Len(skus) |-> 0]
    /\ run = NoRun
    /\ batch = [i |-> 0, settled |-> [k \in 1..Len(skus) |-> <<>>]]
    /\ inits = [pc |-> [c \in 1..MaxCallers |-> "idle"], calls |-> 0, launched |-> 0, ref |-> 0]

InitWith(obs, firsts, maxLen, maxLeaks) == InitFollowing(FALSE, obs, firsts, maxLen, maxLeaks)

\* the pool under load; the browser may fail any call whose failure the
\* scraper can recover from completely
Init == InitWith(FALSE, {1}, MaxSkus, 0)

\* short lists, every attempt observed, and the browser may also fail the
\* calls that install the route handler and that close page and context
InitObserved == InitWith(TRUE, 1..3, MaxObserved, MaxLeaks)

\* seen[i] after one more attempt that met behaviour ev
Observe(old, ev) ==
    IF ~observe THEN old
    ELSE IF old = "none" \/ old = ev THEN ev
    ELSE "mixed"

(***************************************************************************)
(* scrapeWithRetry / scrapeSingleSKU (pool variant).                       *)
(***************************************************************************)
MSG_NewContextFailed ==
    <<"b","r","o","w","s","e","r",".","n","e","w","C","o","n","t","e","x","t",":"," ","f","a","i","l","e","d">>

MSG_RouteFailed ==
    <<"c","o","n","t","e","x","t",".","r","o","u","t","e",":"," ","f","a","i","l","e","d">>

MSG_NewPageFailed ==
    <<"c","o","n","t","e","x","t",".","n","e","w","P","a","g","e",":"," ","f","a","i","l","e","d">>

\* variant: only the block-page keyword is tested, the sentinel forgotten
IsSoftFailureKeywordOnly(product) == Includes(product.Title, STR_RobotCheck)

\* variant: only the sentinel is tested, the block-page keyword forgotten
IsSoftFailureSentinelOnly(product) == product.Title = STR_ERROR

\* product.Title === 'ERROR' || product.Title.includes('Robot Check')
IsSoftFailure(product) ==
    product.Title = STR_ERROR \/ Includes(product.Title, STR_RobotCheck)

\* variant: fallback records are refused like soft failures
AcceptedExtractedOnly(o) ==
    /\ o.kind = "product"
    /\ ~IsSoftFailure(o.product)
    /\ o.product.Description # FALLBACK_DESCRIPTION

\* does this attempt's outcome leave the try block of scrapeWithRetry by return?
Accepted(o) == o.kind = "product" /\ ~IsSoftFailure(o.product)

\* variant: `<=` for `<` in the retry loop's condition
RetryAllowedOffByOne(att) == att <= MAX_RETRIES

\* variant: no retry at all
RetryAllowedNever(att) == FALSE

\* variant: gives up one attempt early
RetryAllowedOneShort(att) == att < MAX_RETRIES - 1

\* the while condition, evaluated after a failed attempt
RetryAllowed(att) == att < MAX_RETRIES

\* variant: the record carries the text of the error-log message
ExhaustedProductAsLogged(sku) ==
    createFallbackProduct(sku, STR_Failed_after \o NumToStr(MAX_RETRIES) \o STR_attempts)

\* the record built after the while loop
ExhaustedProduct(sku) ==
    createFallbackProduct(sku, STR_FAILED_after \o NumToStr(MAX_RETRIES) \o STR_attempts)

\* logError's line (the timestamp is left out)
LogLine(type, sku, msg) == [Type |-> type, SKU |-> sku, message |-> msg]

ExhaustedLogLine(sku) ==
    LogLine(sku.Type, sku.SKU, STR_Failed_after \o NumToStr(MAX_RETRIES) \o STR_attempts)

\* logError: the line is written only if (this.errorStream.writable)
logError(log, stream, type, sku, msg) ==
    IF stream = "open" THEN Append(log, LogLine(type, sku, msg)) ELSE log

\* Entering an attempt: attempt++, then scrapeSingleSKU up to its first await.
\* With no browser it returns the fallback product without awaiting anything.
\* variant: the test of this.browser is missing
BeginPcUnchecked(b) == "creating"

BeginPc(b) == IF b = "null" THEN "nobrowser" ELSE "creating"

\* variant: the catch block does not await randomDelay, the loop iterates at once
AttemptEndsWithoutDelay(i, o) ==
    IF Accepted(o)
    THEN /\ results' = Append(results, o.product)
         /\ pc' = [pc EXCEPT ![i] = "pushed"]
         /\ attempt' = [attempt EXCEPT ![i] = 0]
         /\ UNCHANGED errorLog
    ELSE IF RetryAllowed(attempt[i])
    THEN /\ pc' = [pc EXCEPT ![i] = BeginPc(browser)]
         /\ attempt' = [attempt EXCEPT ![i] = @ + 1]
         /\ UNCHANGED <<results, errorLog>>
    ELSE /\ errorLog' = logError(errorLog, errorStream, skus[i].Type, skus[i].SKU,
                                   STR_Failed_after \o NumToStr(MAX_RETRIES) \o STR_attempts)
         /\ results' = Append(results, ExhaustedProduct(skus[i]))
         /\ pc' = [pc EXCEPT ![i] = "pushed"]
         /\ attempt' = [attempt EXCEPT ![i] = 0]

\* The outcome o of item i's attempt reaches scrapeWithRetry: it returns the
\* product (whose worker then pushes it onto results), or catches, and then
\* either backs off or leaves the loop, logs and returns the fallback product.
\* `attempt` is a local of scrapeWithRetry: it is gone (0) once that returns.
AttemptEnds(i, o) ==
    IF Accepted(o)
    THEN /\ results' = Append(results, o.product)
         /\ pc' = [pc EXCEPT ![i] = "pushed"]
         /\ attempt' = [attempt EXCEPT ![i] = 0]
         /\ UNCHANGED errorLog
    ELSE IF RetryAllowed(attempt[i])
    THEN /\ pc' = [pc EXCEPT ![i] = "backoff"]
         /\ UNCHANGED <<results, errorLog, attempt>>
    ELSE /\ errorLog' = logError(errorLog, errorStream, skus[i].Type, skus[i].SKU,
                                   STR_Failed_after \o NumToStr(MAX_RETRIES) \o STR_attempts)
         /\ results' = Append(results, ExhaustedProduct(skus[i]))
         /\ pc' = [pc EXCEPT ![i] = "pushed"]
         /\ attempt' = [attempt EXCEPT ![i] = 0]

\* scrapeSingleSKU with this.browser null: the fallback product is returned,
\* accepted by scrapeWithRetry and pushed (only reachable once close() ran)
NoBrowser(i) ==
    /\ pc[i] = "nobrowser"
    /\ AttemptEnds(i, Returned(createFallbackProduct(skus[i], MSG_BrowserNotInitialized)))
    /\ seen' = [seen EXCEPT ![i] = Observe(@, "noBrowser")]
    /\ UNCHANGED <<skus, browser, loopPc, queue, activeWorkers, raceOn,
                   context, leaked, leaksLeft, observe>>
    /\ UNCHANGED closeVars
    /\ UNCHANGED ctxVars
    /\ UNCHANGED <<run, batch, inits>>

\* variant: one context is created lazily, kept and handed to every caller
newContextCached(n) == IF n = 0 THEN 1 ELSE n

\* this.browser.newContext({...}): the object returned when n contexts were
\* created before; every call constructs a new BrowserContext
newContext(n) == n + 1

\* scrapeSingleSKU: await this.createBrowserContext()
\*   ok               the context is created and the route installed
\*   newContextFails  browser.newContext rejects: nothing was created
\*   routeFails       context.route rejects: the context exists, but
\*                    createBrowserContext throws and `context` stays null,
\*                    so the finally block closes nothing
\* A failure runs catch (rethrow) and finally, and reaches scrapeWithRetry.
CreateContext(i) ==
    /\ pc[i] = "creating"
    /\ \E r \in {"ok", "newContextFails", "routeFails"} :
         /\ r = "routeFails" => leaksLeft > 0
         /\ r = "ok" => browser = "open"
         /\ leaked' = IF r = "routeFails" THEN leaked + 1 ELSE leaked
         /\ leaksLeft' = IF r = "routeFails" THEN leaksLeft - 1 ELSE leaksLeft
         /\ created' = IF follow /\ r # "newContextFails" THEN newContext(created)
                        ELSE created
         /\ contextId' = IF follow /\ r = "ok"
                          THEN [contextId EXCEPT ![i] = newContext(created)]
                          ELSE contextId
         /\ IF r = "ok"
            THEN /\ context' = [context EXCEPT ![i] = "open"]
                 /\ pc' = [pc EXCEPT ![i] = "page"]
                 /\ UNCHANGED <<results, errorLog, attempt, seen>>
            ELSE /\ AttemptEnds(i, Thrown(IF r = "routeFails" THEN MSG_RouteFailed
                                                              ELSE MSG_NewContextFailed))
                 /\ seen' = [seen EXCEPT ![i] = Observe(@, r)]
                 /\ UNCHANGED context
    /\ UNCHANGED <<skus, browser, loopPc, queue, activeWorkers, raceOn, observe, follow>>
    /\ UNCHANGED closeVars
    /\ UNCHANGED <<run, batch, inits>>

\* the finally block:  try { if (page) await page.close();
\*                           if (context) await context.close(); } catch (e) { }
\* TRUE iff context.close() is reached and succeeds
ContextClosed(pg, ctx, pageCloseOk, ctxCloseOk) ==
    /\ ctx = "open"
    /\ (pg = "open" => pageCloseOk)
    /\ ctxCloseOk

\* what the protocol can produce for a descriptor, by page behaviour
ProtocolOutcomes ==
    [t \in {STR_Amazon, STR_Walmart, STR_Target} |->
        [p \in Pages |->
            fetchProductData(p, [Type |-> t, SKU |-> IF t = STR_Walmart THEN <<"9","8">>
                                                               ELSE <<"B","0">>])]]

\* the ways page.close() / context.close() can go in the finally block
CloseBehaviours == {<<TRUE, TRUE>>, <<FALSE, TRUE>>, <<TRUE, FALSE>>}

\* scrapeSingleSKU from `await context.newPage()` on: the protocol runs on the
\* page, then the finally block closes page and context, then the outcome
\* reaches scrapeWithRetry.
RunProtocol(i) ==
    /\ pc[i] = "page"
    /\ \E newPageOk \in BOOLEAN, p \in Pages, c \in CloseBehaviours :
         LET pg     == IF newPageOk THEN "open" ELSE "null"
             o      == IF newPageOk THEN ProtocolOutcomes[skus[i].Type][p]
                       ELSE Thrown(MSG_NewPageFailed)
             closed == ContextClosed(pg, context[i], c[1], c[2])
         IN  /\ (pg = "null" => c[1])
             /\ (~newPageOk => p = GoodPage)
             /\ (browser = "null" => o.kind = "error")
             /\ ~closed => leaksLeft > 0
             /\ leaked' = IF closed THEN leaked ELSE leaked + 1
             /\ leaksLeft' = IF closed THEN leaksLeft ELSE leaksLeft - 1
             /\ AttemptEnds(i, o)
             /\ seen' = [seen EXCEPT ![i] =
                            Observe(@, IF newPageOk THEN p.name ELSE "newPageFails")]
    /\ context' = [context EXCEPT ![i] = "null"]
    /\ contextId' = [contextId EXCEPT ![i] = 0]
    /\ UNCHANGED <<skus, browser, loopPc, queue, activeWorkers, raceOn, observe, follow, created>>
    /\ UNCHANGED closeVars
    /\ UNCHANGED <<run, batch, inits>>

\* scrapeWithRetry: await this.randomDelay(2000, 5000) is over; next attempt
BackoffDone(i) ==
    /\ pc[i] = "backoff"
    /\ attempt' = [attempt EXCEPT ![i] = @ + 1]
    /\ pc' = [pc EXCEPT ![i] = BeginPc(browser)]
    /\ UNCHANGED <<skus, browser, loopPc, queue, activeWorkers, raceOn, results,
                   errorLog, context, leaked, leaksLeft, observe, seen>>
    /\ UNCHANGED closeVars
    /\ UNCHANGED ctxVars
    /\ UNCHANGED <<run, batch, inits>>

(***************************************************************************)
(* processSKUs (pool variant).                                             *)
(***************************************************************************)
\* variant: a loop that never ends on its own
LoopContinuesAlways(q, a) == TRUE

\* variant: the loop only looks at the queue and forgets the running workers
LoopContinuesQueueOnly(q, a) == Len(q) > 0

\* while (queue.length > 0 || activeWorkers.length > 0)
LoopContinues(q, a) == Len(q) > 0 \/ Len(a) > 0

\* variant: `<=` for `<` in the inner loop's condition
AdmitCountOffByOne(q, a) ==
    IF Len(a) <= CONCURRENCY_LIMIT THEN Min(Len(q), CONCURRENCY_LIMIT + 1 - Len(a)) ELSE 0

\* variant: `if` for the inner `while`, one descriptor per pass
AdmitCountOnePerPass(q, a) ==
    IF Len(a) < CONCURRENCY_LIMIT /\ Len(q) > 0 THEN 1 ELSE 0

\* how many descriptors the inner while loop shifts off the queue:
\* while (queue.length > 0 && activeWorkers.length < CONFIG.CONCURRENCY_LIMIT)
AdmitCount(q, a) ==
    IF Len(a) < CONCURRENCY_LIMIT THEN Min(Len(q), CONCURRENCY_LIMIT - Len(a)) ELSE 0

\* variant: indexOf finds nothing (-1), and splice(-1, 1) removes the last entry
SpliceLast(a, w) == SubSeq(a, 1, Len(a) - 1)

\* variant: the finally callback removes nothing
SpliceNothing(a, w) == a

\* activeWorkers.splice(activeWorkers.indexOf(workerPromise), 1)
Splice(a, w) ==
    LET k == CHOOSE j \in 1..Len(a) : a[j] = w
    IN  SubSeq(a, 1, k - 1) \o SubSeq(a, k + 1, Len(a))

\* variant: queue.pop() for queue.shift(), the newest descriptor first
FillFromEnd(q, a, b) ==
    LET k        == IF LoopContinues(q, a) THEN AdmitCount(q, a) ELSE 0
        admitted == [j \in 1..k |-> q[Len(q) + 1 - j]]
        started  == { admitted[j] : j \in 1..k }
        a2       == a \o admitted
    IN  /\ queue' = SubSeq(q, 1, Len(q) - k)
        /\ activeWorkers' = a2
        /\ attempt' = [i \in Items |-> IF i \in started THEN 1 ELSE attempt[i]]
        /\ pc' = [i \in Items |-> IF i \in started THEN BeginPc(b) ELSE pc[i]]
        /\ IF LoopContinues(q, a)
           THEN /\ loopPc' = "race"
                /\ raceOn' = { a2[j] : j \in 1..Len(a2) }
           ELSE /\ loopPc' = "returned"
                /\ raceOn' = {}

\* processSKUs from the head of the outer loop to its next await or to the
\* return: if the loop goes on, the inner loop shifts descriptors off the queue
\* and starts a worker for each, then the loop awaits Promise.race.
Fill(q, a, b) ==
    LET k        == IF LoopContinues(q, a) THEN AdmitCount(q, a) ELSE 0
        admitted == SubSeq(q, 1, k)
        started  == { admitted[j] : j \in 1..k }
        a2       == a \o admitted
    IN  /\ queue' = SubSeq(q, k + 1, Len(q))
        /\ activeWorkers' = a2
        /\ attempt' = [i \in Items |-> IF i \in started THEN 1 ELSE attempt[i]]
        /\ pc' = [i \in Items |-> IF i \in started THEN BeginPc(b) ELSE pc[i]]
        /\ IF LoopContinues(q, a)
           THEN /\ loopPc' = "race"
                /\ raceOn' = { a2[j] : j \in 1..Len(a2) }
           ELSE /\ loopPc' = "returned"
                /\ raceOn' = {}

\* processSKUs: await this.init() resolved (chromium.launch succeeded)
ProcessSKUs ==
    /\ loopPc = "init"
    /\ browser' = "open"
    /\ Fill([k \in 1..Len(skus) |-> k], <<>>, "open")
    /\ UNCHANGED <<skus, results, errorLog, context, leaked, leaksLeft, observe, seen>>
    /\ UNCHANGED closeVars
    /\ UNCHANGED ctxVars
    /\ UNCHANGED <<run, batch, inits>>

\* chromium.launch rejects: init() and with it processSKUs reject
LaunchFails ==
    /\ loopPc = "init"
    /\ loopPc' = "rejected"
    /\ UNCHANGED <<skus, browser, queue, activeWorkers, raceOn, results, errorLog,
                   pc, attempt, context, leaked, leaksLeft, observe, seen>>
    /\ UNCHANGED closeVars
    /\ UNCHANGED ctxVars
    /\ UNCHANGED <<run, batch, inits>>

\* .finally(() => { activeWorkers.splice(...) }); workerPromise is then resolved
WorkerDone(i) ==
    /\ pc[i] = "pushed"
    /\ activeWorkers' = Splice(activeWorkers, i)
    /\ pc' = [pc EXCEPT ![i] = "done"]
    /\ UNCHANGED <<skus, browser, loopPc, queue, raceOn, results, errorLog,
                   attempt, context, leaked, leaksLeft, observe, seen>>
    /\ UNCHANGED closeVars
    /\ UNCHANGED ctxVars
    /\ UNCHANGED <<run, batch, inits>>

\* Promise.race resolved: one of the raced worker promises is resolved
RaceResolved ==
    /\ loopPc = "race"
    /\ \E w \in raceOn : pc[w] = "done"
    /\ Fill(queue, activeWorkers, browser)
    /\ UNCHANGED <<skus, browser, results, errorLog, context, leaked, leaksLeft, observe, seen>>
    /\ UNCHANGED closeVars
    /\ UNCHANGED ctxVars
    /\ UNCHANGED <<run, batch, inits>>

Next ==
    \/ ProcessSKUs
    \/ LaunchFails
    \/ RaceResolved
    \/ \E i \in Items : CreateContext(i)
    \/ \E i \in Items : RunProtocol(i)
    \/ \E i \in Items : BackoffDone(i)
    \/ \E i \in Items : WorkerDone(i)

Spec == Init /\ [][Next]_vars

\* the same program; every attempt's behaviour is recorded in seen
SpecObserved == InitObserved /\ [][Next]_vars

\* the pool when the event loop keeps running whatever is ready and every
\* browser call, attempt and delay comes to an end
FairSpec == Init /\ [][Next]_vars /\ WF_vars(Next)

\* the pool with two slots taken, every context object followed
InitContexts == InitFollowing(TRUE, FALSE, {1}, MaxContexts, 0)

SpecContexts == InitContexts /\ [][Next]_vars

(***************************************************************************)
(* init(), invoked any number of times, also while an earlier invocation   *)
(* still awaits chromium.launch (the same code in both variants).          *)
(***************************************************************************)
\* init() is invoked: `if (this.browser) return;`, otherwise chromium.launch
\* is called and awaited
InitInvoked(c) ==
    /\ inits.pc[c] \in {"idle", "returned", "rejected"}
    /\ inits.calls < MaxInits
    /\ inits' = [inits EXCEPT !.calls = @ + 1,
                              !.pc[c] = IF inits.ref # 0 THEN "returned" ELSE "launching"]
    /\ UNCHANGED scraperVarsButInits

\* chromium.launch resolves with a new browser, which is assigned to
\* this.browser whatever that referred to
LaunchResolved(c) ==
    /\ inits.pc[c] = "launching"
    /\ inits' = [inits EXCEPT !.launched = @ + 1,
                              !.ref = inits.launched + 1,
                              !.pc[c] = "returned"]
    /\ browser' = "open"
    /\ UNCHANGED <<skus, loopPc, queue, activeWorkers, raceOn, results, errorLog,
                   pc, attempt, context, leaked, leaksLeft, observe, seen, run, batch>>
    /\ UNCHANGED closeVars
    /\ UNCHANGED ctxVars

\* chromium.launch rejects: nothing is assigned, init() rejects
LaunchRejected(c) ==
    /\ inits.pc[c] = "launching"
    /\ inits' = [inits EXCEPT !.pc[c] = "rejected"]
    /\ UNCHANGED scraperVarsButInits

NextInit ==
    \/ \E c \in 1..MaxCallers : InitInvoked(c)
    \/ \E c \in 1..MaxCallers : LaunchResolved(c)
    \/ \E c \in 1..MaxCallers : LaunchRejected(c)

\* init() on its own, invoked over and over by MaxCallers callers
SpecInit == InitWith(FALSE, {1}, 0, 0) /\ [][NextInit]_vars

(***************************************************************************)
(* processSKUs / scrapeSingleSKU (batch variant, src/utils.ts).            *)
(***************************************************************************)
\* the batch variant's fallback record (its products have no Rating)
BatchFallbackProduct(sku, reason) ==
    [ SKU             |-> sku.SKU,
      Source          |-> sku.Type,
      Title           |-> reason,
      Description     |-> <<"F","A","I","L","E","D">>,
      Price           |-> <<>>,
      NumberOfReviews |-> <<>> ]

\* what `await this.fetchProductData(page, sku)` can settle with: the record
\* of a loaded product page, or one of the protocol's errors
BatchOutcomes(sku) ==
    IF sku.Type \notin {STR_Amazon, STR_Walmart}
    THEN { Thrown(MSG_SelectorsNotMapped) }
    ELSE { Returned([ SKU             |-> sku.SKU,
                      Source          |-> sku.Type,
                      Title           |-> <<"W","i","d","g","e","t">>,
                      Description     |-> <<>>,
                      Price           |-> <<"$","1","2",".","5","0">>,
                      NumberOfReviews |-> <<"7">> ]),
           Thrown(MSG_NoResponse),
           Thrown(MSG_ValidationFailed) }

\* variant: the whole rest of the list is one chunk
ChunkOfRest(i, n) == (i + 1)..n

\* skus.slice(i, i + CONFIG.CONCURRENCY_LIMIT), as input positions (from 1)
ChunkOf(i, n) == (i + 1)..Min(i + CONFIG_Batch.CONCURRENCY_LIMIT, n)

\* The for loop is entered with index i: past the end it returns results;
\* otherwise chunk.map starts scrapeSingleSKU for every item of the chunk, each
\* running to its first await (with no browser it returns the fallback record
\* at once), and processSKUs awaits Promise.all.
StartChunk(i, b) ==
    IF i >= Len(skus)
    THEN /\ loopPc' = "returned"
         /\ batch' = [batch EXCEPT !.i = i]
         /\ UNCHANGED pc
    ELSE /\ loopPc' = "batch"
         /\ pc' = [k \in Items |->
                      IF k \notin ChunkOf(i, Len(skus)) THEN pc[k]
                      ELSE IF b = "null" THEN "settled" ELSE "creating"]
         /\ batch' = [ i       |-> i,
                       settled |-> [k \in Items |->
                                      IF k \in ChunkOf(i, Len(skus)) /\ b = "null"
                                      THEN <<BatchFallbackProduct(skus[k], MSG_BrowserNotInitialized)>>
                                      ELSE batch.settled[k]] ]

\* processSKUs: await this.init() is over (the browser is launched), the loop
\* starts with i = 0
BatchProcessSKUs ==
    /\ loopPc = "init"
    /\ browser' = "open"
    /\ StartChunk(0, "open")
    /\ UNCHANGED <<skus, queue, activeWorkers, raceOn, results, errorLog, attempt,
                   context, leaked, leaksLeft, observe, seen, run>>
    /\ UNCHANGED closeVars
    /\ UNCHANGED ctxVars
    /\ UNCHANGED inits

\* scrapeSingleSKU: await this.createBrowserContext(); a failure is caught and
\* the 'Context Creation Failed' record returned, without a log line
BatchCreateContext(i) ==
    /\ pc[i] = "creating"
    /\ \E r \in {"ok", "newContextFails", "routeFails"} :
         /\ r = "routeFails" => leaksLeft > 0
         /\ r = "ok" => browser = "open"
         /\ leaked' = IF r = "routeFails" THEN leaked + 1 ELSE leaked
         /\ leaksLeft' = IF r = "routeFails" THEN leaksLeft - 1 ELSE leaksLeft
         /\ IF r = "ok"
            THEN /\ context' = [context EXCEPT ![i] = "open"]
                 /\ pc' = [pc EXCEPT ![i] = "page"]
                 /\ UNCHANGED batch
            ELSE /\ pc' = [pc EXCEPT ![i] = "settled"]
                 /\ batch' = [batch EXCEPT !.settled[i] =
                                 <<BatchFallbackProduct(skus[i],
                                      <<"C","o","n","t","e","x","t"," ","C","r","e","a","t","i","o","n"," ","F","a","i","l","e","d">>)>>]
                 /\ UNCHANGED context
    /\ UNCHANGED <<skus, browser, loopPc, queue, activeWorkers, raceOn, results, errorLog,
                   attempt, observe, seen, run>>
    /\ UNCHANGED closeVars
    /\ UNCHANGED ctxVars
    /\ UNCHANGED inits

\* scrapeSingleSKU from `await context.newPage()` on: an error of newPage or of
\* the protocol is logged and turned into the `ERROR: ...` record; then the
\* finally block awaits context.close(), outside any try: if that rejects,
\* scrapeSingleSKU rejects and its product is lost
BatchRunProtocol(i) ==
    /\ pc[i] = "page"
    /\ \E newPageOk \in BOOLEAN, o \in BatchOutcomes(skus[i]), closeOk \in BOOLEAN :
         LET out     == IF newPageOk THEN o ELSE Thrown(MSG_NewPageFailed)
             product == IF out.kind = "product" THEN out.product
                        ELSE BatchFallbackProduct(skus[i],
                                <<"E","R","R","O","R",":"," ">> \o out.message)
         IN  /\ (~newPageOk => o = Thrown(MSG_SelectorsNotMapped) \/ o.kind = "product")
             /\ errorLog' = IF out.kind = "product" THEN errorLog
                            ELSE logError(errorLog, errorStream, skus[i].Type,
                                          skus[i].SKU, out.message)
             /\ ~closeOk => leaksLeft > 0
             /\ leaked' = IF closeOk THEN leaked ELSE leaked + 1
             /\ leaksLeft' = IF closeOk THEN leaksLeft ELSE leaksLeft - 1
             /\ IF closeOk
                THEN /\ pc' = [pc EXCEPT ![i] = "settled"]
                     /\ batch' = [batch EXCEPT !.settled[i] = <<product>>]
                ELSE /\ pc' = [pc EXCEPT ![i] = "failed"]
                     /\ UNCHANGED batch
    /\ context' = [context EXCEPT ![i] = "null"]
    /\ UNCHANGED <<skus, browser, loopPc, queue, activeWorkers, raceOn, results,
                   attempt, observe, seen, run>>
    /\ UNCHANGED closeVars
    /\ UNCHANGED ctxVars
    /\ UNCHANGED inits

\* variant: the products of the chunk, last item first
ChunkProductsReversed(from, to) ==
    Concat([k \in 1..(to - from + 1) |-> batch.settled[to - k + 1]])

\* the products of the chunk, in the order of the chunk
RECURSIVE ChunkProducts(_, _)
ChunkProducts(from, to) ==
    IF from > to THEN <<>>
    ELSE batch.settled[from] \o ChunkProducts(from + 1, to)

\* Promise.all resolves: every promise of the chunk is resolved;
\* results.push(...batchResults), then await this.randomDelay(1000, 3000)
BatchResolved ==
    /\ loopPc = "batch"
    /\ \A k \in ChunkOf(batch.i, Len(skus)) : pc[k] = "settled"
    /\ results' = results \o ChunkProducts(batch.i + 1,
                                           Min(batch.i + CONFIG_Batch.CONCURRENCY_LIMIT, Len(skus)))
    /\ pc' = [k \in Items |-> IF k \in ChunkOf(batch.i, Len(skus)) THEN "done" ELSE pc[k]]
    /\ loopPc' = "delay"
    /\ UNCHANGED <<skus, browser, queue, activeWorkers, raceOn, errorLog, attempt,
                   context, leaked, leaksLeft, observe, seen, run, batch>>
    /\ UNCHANGED closeVars
    /\ UNCHANGED ctxVars
    /\ UNCHANGED inits

\* Promise.all rejects as soon as one promise of the chunk has rejected, and
\* processSKUs with it; the other items of the chunk run on
BatchRejected ==
    /\ loopPc = "batch"
    /\ \E k \in ChunkOf(batch.i, Len(skus)) : pc[k] = "failed"
    /\ loopPc' = "rejected"
    /\ UNCHANGED <<skus, browser, queue, activeWorkers, raceOn, results, errorLog, pc,
                   attempt, context, leaked, leaksLeft, observe, seen, run, batch>>
    /\ UNCHANGED closeVars
    /\ UNCHANGED ctxVars
    /\ UNCHANGED inits

\* the inter-batch delay is over: i += CONFIG.CONCURRENCY_LIMIT, next pass
BatchDelayDone ==
    /\ loopPc = "delay"
    /\ StartChunk(batch.i + CONFIG_Batch.CONCURRENCY_LIMIT, browser)
    /\ UNCHANGED <<skus, browser, queue, activeWorkers, raceOn, results, errorLog,
                   attempt, context, leaked, leaksLeft, observe, seen, run>>
    /\ UNCHANGED closeVars
    /\ UNCHANGED ctxVars
    /\ UNCHANGED inits

NextBatch ==
    \/ BatchProcessSKUs
    \/ LaunchFails
    \/ \E i \in Items : BatchCreateContext(i)
    \/ \E i \in Items : BatchRunProtocol(i)
    \/ BatchResolved
    \/ BatchRejected
    \/ BatchDelayDone

InitBatch == InitWith(FALSE, {1}, MaxBatch, MaxLeaks)

\* the batch variant; the browser may fail any call, context.close() included
SpecBatch == InitBatch /\ [][NextBatch]_vars

(***************************************************************************)
(* fetchProductData, one await at a time.                                  *)
(***************************************************************************)
\* variant: a stage that throws is recorded, and the next stage runs anyway
StageEndsIgnoringThrow(r, name, res, next) ==
    [r EXCEPT !.stage = next, !.trace = Append(@, [stage |-> name, threw |-> res.threw])]

\* an awaited stage settles: a rejection leaves fetchProductData at once with
\* that error, otherwise the statement after the await is next
StageEnds(r, name, res, next) ==
    IF res.threw
    THEN [r EXCEPT !.stage = "ended",
                   !.trace = Append(@, [stage |-> name, threw |-> TRUE]),
                   !.outcome = Thrown(res.message)]
    ELSE [r EXCEPT !.stage = next,
                   !.trace = Append(@, [stage |-> name, threw |-> FALSE])]

\* const [title, description, price, reviews, rating] = await Promise.all([...])
rawData(page, selectors) ==
    [ Title           |-> getTextFromSelectors(page, selectors.title, "none"),
      Description     |-> getTextFromSelectors(page, selectors.description, "none"),
      Price           |-> getTextFromSelectors(page, selectors.price, "none"),
      NumberOfReviews |-> getTextFromSelectors(page, selectors.reviews, "reviews"),
      Rating          |-> getTextFromSelectors(page, selectors.rating, "rating") ]

\* fetchProductData(page, sku) is called: the selector lookup, then the URL
FetchProductData ==
    /\ run.stage = "idle"
    /\ \E t \in {STR_Amazon, STR_Walmart, STR_Target}, p \in ProtocolPages :
         LET sku == [Type |-> t, SKU |-> IF t = STR_Walmart THEN <<"9","8">> ELSE <<"B","0">>]
         IN  run' = StageEnds([run EXCEPT !.sku = sku, !.page = p], "selectors",
                              IF t \notin DOMAIN SELECTORS_MAP
                              THEN Throw(MSG_SelectorsNotMapped) ELSE Ok,
                              "navigate")
    /\ UNCHANGED scraperVars

NavigateToPage ==
    /\ run.stage = "navigate"
    /\ run' = StageEnds(run, "navigate", navigateToPage(run.page), "softBlock")
    /\ UNCHANGED scraperVars

HandleSoftBlock ==
    /\ run.stage = "softBlock"
    /\ run' = StageEnds(run, "softBlock", handleSoftBlock(run.page, run.sku), "botCheck")
    /\ UNCHANGED scraperVars

CheckForBotDetection ==
    /\ run.stage = "botCheck"
    /\ run' = StageEnds(run, "botCheck", checkForBotDetection(run.page), "humanize")
    /\ UNCHANGED scraperVars

HumanizeInteraction ==
    /\ run.stage = "humanize"
    /\ run' = StageEnds(run, "humanize", humanizeInteraction(run.page), "contentWait")
    /\ UNCHANGED scraperVars

WaitForProductContent ==
    /\ run.stage = "contentWait"
    /\ run' = StageEnds(run, "contentWait",
                        waitForProductContent(run.page, SELECTORS_MAP[run.sku.Type]),
                        "extract")
    /\ UNCHANGED scraperVars

\* const data = await this.extractData(page, selectors): every candidate's
\* failure is caught inside, so the await never rejects
ExtractData ==
    /\ run.stage = "extract"
    /\ run' = StageEnds([run EXCEPT !.raw = rawData(run.page, SELECTORS_MAP[run.sku.Type]),
                                    !.data = extractData(run.page, SELECTORS_MAP[run.sku.Type])],
                        "extract", Ok, "validate")
    /\ UNCHANGED scraperVars

\* await this.validateExtractedData(data, page); return {SKU, Source, ...data}
ValidateExtractedData ==
    /\ run.stage = "validate"
    /\ LET res == validateExtractedData(run.data, run.page)
           r   == StageEnds(run, "validate", res, "ended")
       IN  run' = IF res.threw THEN r
                  ELSE [r EXCEPT !.outcome =
                           Returned([ SKU             |-> run.sku.SKU,
                                      Source          |-> run.sku.Type,
                                      Title           |-> run.data.Title,
                                      Description     |-> run.data.Description,
                                      Price           |-> run.data.Price,
                                      NumberOfReviews |-> run.data.NumberOfReviews,
                                      Rating          |-> run.data.Rating ])]
    /\ UNCHANGED scraperVars

NextProtocol ==
    \/ FetchProductData
    \/ NavigateToPage
    \/ HandleSoftBlock
    \/ CheckForBotDetection
    \/ HumanizeInteraction
    \/ WaitForProductContent
    \/ ExtractData
    \/ ValidateExtractedData

InitProtocol == InitWith(FALSE, {1}, 0, 0)

\* one call of fetchProductData on any of the pages, one await at a time
SpecProtocol == InitProtocol /\ [][NextProtocol]_vars

(***************************************************************************)
(* The private helpers called on their own, as the unit tests call them.   *)
(***************************************************************************)
\* the object extractData returns, from the five raw texts
cleanData(raw) ==
    [ Title           |-> CleanTitle(raw.Title),
      Description     |-> CleanDescription(raw.Description),
      Price           |-> CleanPrice(raw.Price),
      NumberOfReviews |-> CleanReviews(raw.NumberOfReviews),
      Rating          |-> CleanRating(raw.Rating) ]

\* the cleaning transforms of extractData applied to a raw text
CleanFields ==
    /\ run.stage = "idle"
    /\ \E s \in RawTexts :
         LET raw == [Title |-> s, Description |-> s, Price |-> s,
                     NumberOfReviews |-> s, Rating |-> s]
         IN  run' = [run EXCEPT !.stage = "cleaned", !.raw = raw, !.data = cleanData(raw)]
    /\ UNCHANGED scraperVars

\* resolveProductUrl(sku), whatever was called before
ResolveProductUrl ==
    /\ run.stage \in {"idle", "cleaned", "resolved"}
    /\ \E t \in {STR_Amazon, STR_Walmart, STR_Target}, s \in {<<"B","0">>, <<"9","8">>, <<>>} :
         LET sku == [Type |-> t, SKU |-> s]
         IN  run' = [run EXCEPT !.stage = "resolved",
                                !.sku = sku,
                                !.outcome = [kind |-> "value", message |-> resolveProductUrl(sku)]]
    /\ UNCHANGED scraperVars

\* how an awaited helper that returns nothing settles
Settled(res) ==
    IF res.threw THEN Thrown(res.message) ELSE [kind |-> "void", message |-> <<>>]

\* what page.goto can resolve to: null (written 0) or a response with a status
Statuses == {0, 200, 304, 399, 400, 403, 404, 405, 500, 503}

\* navigateToPage(page, url) on a page whose goto resolves, whatever was
\* called before (of which nothing is kept)
CallNavigateToPage ==
    /\ run.stage \in {"idle", "cleaned", "resolved", "navigated", "validated"}
    /\ \E st \in Statuses :
         LET page == [GoodPage EXCEPT !.name = "status", !.status = st]
         IN  run' = [NoRun EXCEPT !.stage = "navigated",
                                !.page = page,
                                !.outcome = Settled(navigateToPage(page))]
    /\ UNCHANGED scraperVars

\* the texts body.innerText() gives (empty also when it fails: .catch)
BodyTexts ==
    { <<>>,
      <<"W","i","d","g","e","t">>,
      <<"C","u","r","r","e","n","t","l","y"," ","u","n","a","v","a","i","l","a","b","l","e",".">>,
      <<"N","o","w",":"," ","C","u","r","r","e","n","t","l","y"," ","u","n","a","v","a","i","l","a","b","l","e">>,
      <<"c","u","r","r","e","n","t","l","y"," ","u","n","a","v","a","i","l","a","b","l","e">> }

\* validateExtractedData(data, page) on any title and body, whatever was
\* called before (of which nothing is kept)
CallValidateExtractedData ==
    /\ run.stage \in {"idle", "cleaned", "resolved", "navigated", "validated"}
    /\ \E t \in {<<>>, <<"W">>, <<" ">>, <<"E","R","R","O","R">>}, b \in BodyTexts :
         LET page == [GoodPage EXCEPT !.name = "body", !.bodyText = b]
             data == [NoRun.data EXCEPT !.Title = t]
         IN  run' = [NoRun EXCEPT !.stage = "validated",
                                !.page = page,
                                !.data = data,
                                !.outcome = Settled(validateExtractedData(data, page))]
    /\ UNCHANGED scraperVars

NextCalls ==
    \/ CleanFields
    \/ ResolveProductUrl
    \/ CallNavigateToPage
    \/ CallValidateExtractedData

\* one call of one helper, on any input
SpecCalls == InitProtocol /\ [][NextCalls]_vars

(***************************************************************************)
(* close(), called by the owner of the scraper at any moment: before,      *)
(* during or after processSKUs.                                            *)
(***************************************************************************)
\* close() is called: with a browser it awaits this.browser.close(); without
\* one it ends the error stream and returns
Close ==
    /\ closePc = "idle"
    /\ IF browser # "null"
       THEN /\ closePc' = "closing"
            /\ UNCHANGED errorStream
       ELSE /\ closePc' = "closed"
            /\ errorStream' = "ended"
    /\ UNCHANGED <<skus, browser, loopPc, queue, activeWorkers, raceOn, results, errorLog,
                   pc, attempt, context, leaked, leaksLeft, observe, seen>>
    /\ UNCHANGED ctxVars
    /\ UNCHANGED <<run, batch, inits>>

\* browser.close() resolved: this.browser = null; this.errorStream.end()
CloseResolved ==
    /\ closePc = "closing"
    /\ closePc' = "closed"
    /\ browser' = "null"
    /\ errorStream' = "ended"
    /\ UNCHANGED <<skus, loopPc, queue, activeWorkers, raceOn, results, errorLog,
                   pc, attempt, context, leaked, leaksLeft, observe, seen>>
    /\ UNCHANGED ctxVars
    /\ UNCHANGED <<run, batch, inits>>

\* browser.close() rejected: close() rejects, leaving browser and stream as
\* they were
CloseRejected ==
    /\ closePc = "closing"
    /\ closePc' = "rejected"
    /\ UNCHANGED <<skus, browser, loopPc, queue, activeWorkers, raceOn, results, errorLog,
                   pc, attempt, context, leaked, leaksLeft, observe, seen, errorStream>>
    /\ UNCHANGED ctxVars
    /\ UNCHANGED <<run, batch, inits>>

NextClose ==
    \/ Next
    \/ Close
    \/ CloseResolved
    \/ CloseRejected
    \/ \E i \in Items : NoBrowser(i)

InitClose == InitWith(FALSE, {1}, MaxClosing, 0)

\* processSKUs with close() called at any moment
SpecClose == InitClose /\ [][NextClose]_vars

\* the same, every pending operation and delay eventually completing
FairSpecClose == InitClose /\ [][NextClose]_vars /\ WF_vars(NextClose)

(***************************************************************************)
(* Properties.                                                             *)
(***************************************************************************)
\* items whose scrapeWithRetry has been started and has not completed
Active == { i \in Items : pc[i] \in {"nobrowser", "creating", "page", "backoff"} }

\* the records of results that carry item i's SKU and Type
RecordsFor(i) ==
    { j \in 1..Len(results) :
        results[j].SKU = skus[i].SKU /\ results[j].Source = skus[i].Type }

\* the positions of the input list holding the same descriptor as position i
SameDescriptor(i) == { k \in Items : skus[k] = skus[i] }

IsExhaustedRecord(r) ==
    /\ r.Title = STR_FAILED_after \o NumToStr(MAX_RETRIES) \o STR_attempts
    /\ r.Description = FALLBACK_DESCRIPTION

\* C1: when processSKUs has resolved, results is as long as the input and
\* holds, for every input descriptor, exactly as many records with its SKU and
\* Type as the input holds copies of it: none dropped, none duplicated.
C1_OneRecordPerDescriptor ==
    loopPc = "returned" =>
        /\ Len(results) = Len(skus)
        /\ \A i \in Items : Cardinality(RecordsFor(i)) = Cardinality(SameDescriptor(i))

\* a run over a list longer than the pool, with a repeated descriptor, some
\* items extracted and some fallen back, has resolved
C1_Witness ==
    /\ loopPc = "returned"
    /\ Len(skus) > CONCURRENCY_LIMIT
    /\ \E i \in Items : Cardinality(SameDescriptor(i)) > 1
    /\ \E j \in 1..Len(results) : IsExhaustedRecord(results[j])
    /\ \E j \in 1..Len(results) : ~IsExhaustedRecord(results[j])

\* C2: at no instant are more than CONFIG.CONCURRENCY_LIMIT items active, an
\* item being active from the start of its scrapeWithRetry to its completion,
\* retries and backoff delays included.
C2_ConcurrencyLimit == Cardinality(Active) <= CONCURRENCY_LIMIT

\* the pool is full, one active item is in a backoff delay, and a descriptor
\* is waiting in the queue
C2_Witness ==
    /\ Cardinality(Active) = CONCURRENCY_LIMIT
    /\ \E i \in Active : pc[i] = "backoff"
    /\ queue # <<>>

\* C3: scrapeWithRetry never raises and invokes scrapeSingleSKU at most
\* CONFIG.MAX_RETRIES times: the attempt counter never exceeds MAX_RETRIES, a
\* backoff delay is only taken when an attempt is left, and a completed
\* scrapeWithRetry has delivered a record for its descriptor.
C3_RetryNeverRaises ==
    \A i \in Items :
        /\ attempt[i] <= MAX_RETRIES
        /\ pc[i] \in {"queued", "nobrowser", "creating", "page", "backoff", "pushed", "done"}
        /\ (pc[i] = "backoff" => attempt[i] < MAX_RETRIES)
        /\ (pc[i] \in {"pushed", "done"} => RecordsFor(i) # {})

\* an item whose every attempt failed has completed with the fallback record
\* while another item is in its last attempt
C3_Witness ==
    /\ \E i \in Items : /\ pc[i] \in {"pushed", "done"}
                        /\ \E j \in RecordsFor(i) : IsExhaustedRecord(results[j])
    /\ \E i \in Items : pc[i] = "page" /\ attempt[i] = MAX_RETRIES

\* C4: every context created during an attempt is closed by the time the
\* attempt's outcome reaches scrapeWithRetry, on every exit path: no context
\* is ever left open behind a finished attempt.
C4_ContextClosedBeforeOutcome == leaked = 0

\* an attempt fails while it creates its context (pc "creating"): the step by
\* which item i leaves scrapeSingleSKU without ever having held a context
CreationFails(i) == pc[i] = "creating" /\ pc'[i] \notin {"creating", "page"}

AlwaysMet(i, b) ==
    /\ seen[i] = b
    /\ pc[i] \in {"pushed", "done"}

Mapped(i) == skus[i].Type \in DOMAIN SELECTORS_MAP

\* C6: a descriptor whose retailer tag has no entry in SELECTORS_MAP resolves
\* to a fallback record whose reason (its Title) cites that selectors are not
\* mapped. (Stated for the runs in which the browser and the site behave: every
\* attempt got its context and a well-formed product page, nothing leaked.)
C6_UnknownRetailerCited ==
    \A i \in Items :
        (AlwaysMet(i, "good") /\ ~Mapped(i) /\ leaked = 0) =>
            \A j \in RecordsFor(i) :
                /\ results[j].Description = FALLBACK_DESCRIPTION
                /\ Includes(results[j].Title, MSG_SelectorsNotMapped)

\* C7 (as stated): when the protocol times out on every attempt, the record
\* has a Title that starts with "Failed after" and Description 'FAILED'.
C7_TimeoutTitleFailedAfter ==
    \A i \in Items :
        (AlwaysMet(i, "titleTimeout") /\ Mapped(i)) =>
            \A j \in RecordsFor(i) :
                /\ StartsWith(results[j].Title, STR_Failed_after)
                /\ results[j].Description = FALLBACK_DESCRIPTION

\* C7 (amended): when the protocol times out on every attempt, the record's
\* Title is 'FAILED after MAX_RETRIES attempts' (upper case), its Description
\* is 'FAILED' and its other fields are empty; 'Failed after MAX_RETRIES
\* attempts' is the message of the line written to the error log.
C7_TimeoutTitleFAILEDAfter ==
    \A i \in Items :
        (AlwaysMet(i, "titleTimeout") /\ Mapped(i)) =>
            /\ RecordsFor(i) # {}
            /\ \A j \in RecordsFor(i) :
                  /\ results[j].Title = STR_FAILED_after \o NumToStr(MAX_RETRIES) \o STR_attempts
                  /\ ~StartsWith(results[j].Title, STR_Failed_after)
                  /\ results[j].Description = FALLBACK_DESCRIPTION
                  /\ results[j].Price = EMPTY_STRING
            /\ \E l \in 1..Len(errorLog) :
                  /\ errorLog[l].SKU = skus[i].SKU
                  /\ StartsWith(errorLog[l].message, STR_Failed_after)

\* an item of a mapped retailer has completed after the wait for its title
\* timed out in every attempt
C7_Witness ==
    \E i \in Items :
        /\ AlwaysMet(i, "titleTimeout")
        /\ Mapped(i)
        /\ ProtocolOutcomes[skus[i].Type][CHOOSE p \in Pages : p.name = "titleTimeout"]
              = Thrown(MSG_TitleTimeout)
        /\ RecordsFor(i) # {}

\* C8: when the page loads with a blank title and its body holds the
\* "Currently unavailable" marker, the record's Title names unavailability.
\* (Stated for the runs in which every attempt got its context and met that
\* page, and nothing leaked.)
C8_UnavailableNamed ==
    \A i \in Items :
        (AlwaysMet(i, "unavailable") /\ Mapped(i) /\ leaked = 0) =>
            \A j \in RecordsFor(i) :
                IncludesNoCase(results[j].Title, <<"u","n","a","v","a","i","l","a","b","l","e">>)

\* C9: under fairness processSKUs comes to an end, and stays there, for every
\* descriptor list: it returns the results, or it rejects because the browser
\* could not be launched, before any worker was started. It never hangs.
C9_Resolves ==
    <>[](\/ loopPc = "returned"
         \/ (loopPc = "rejected" /\ \A i \in Items : pc[i] = "queued"))

\* processSKUs has returned the records of a list longer than the pool
C9_Witness ==
    /\ loopPc = "returned"
    /\ Len(results) > CONCURRENCY_LIMIT
    /\ activeWorkers = <<>>
    /\ queue = <<>>

\* C10: the pool is work-conserving. While the control loop waits in
\* Promise.race and none of the raced workers has completed its
\* scrapeWithRetry since, the queue is empty or exactly CONCURRENCY_LIMIT items
\* are active: every pass of the loop refills all free slots before it waits
\* again.
C10_WorkConserving ==
    (loopPc = "race" /\ \A w \in raceOn : pc[w] \notin {"pushed", "done"}) =>
        (queue = <<>> \/ Cardinality(Active) = CONCURRENCY_LIMIT)

\* the loop waits again with a full pool after a worker has finished and its
\* slot has been refilled from the queue
C10_Witness ==
    /\ loopPc = "race"
    /\ \A w \in raceOn : pc[w] \notin {"pushed", "done"}
    /\ \E i \in Items : pc[i] = "done"
    /\ Cardinality(Active) = CONCURRENCY_LIMIT
    /\ Len(results) = 1

\* C11: descriptors are admitted in input-queue order. A descriptor is never
\* started while one that precedes it in the input list is still waiting, the
\* queue holds the waiting descriptors in input order, and each step starts
\* the descriptors at the head of the queue; completion and output order are
\* free.
C11_AdmissionInQueueOrder ==
    /\ \A i, j \in Items : (i < j /\ pc[j] # "queued") => pc[i] # "queued"
    /\ \A k \in 1..Len(queue) : pc[queue[k]] = "queued"
    /\ \A k \in 1..(Len(queue) - 1) : queue[k] < queue[k + 1]
    /\ \A k \in 1..(Len(activeWorkers) - 1) : activeWorkers[k] < activeWorkers[k + 1]

\* the fourth descriptor was admitted after the second one completed, while
\* the first one is still active: completion overtook admission order
C11_Witness ==
    /\ Len(skus) > CONCURRENCY_LIMIT
    /\ pc[1] \in {"creating", "page", "backoff"}
    /\ pc[2] = "done"
    /\ pc[Len(skus)] \in {"creating", "page", "backoff"}
    /\ results # <<>>
    /\ results[1].Source = skus[2].Type

\* C12: every record of results, extracted or fallback, has a non-empty Title
\* (and not a blank one: the title is trimmed before it is tested).
C12_TitleNeverEmpty ==
    \A j \in 1..Len(results) :
        /\ results[j].Title # EMPTY_STRING
        /\ Trim(results[j].Title) # EMPTY_STRING

\* processSKUs has returned an extracted record and a fallback record
C12_Witness ==
    /\ loopPc = "returned"
    /\ \E j \in 1..Len(results) :
          /\ results[j].Description # FALLBACK_DESCRIPTION
          /\ results[j].Title = Trim(GoodPage.dom[SELECTORS_Amazon.title[1]].text)
    /\ \E j \in 1..Len(results) : IsExhaustedRecord(results[j])

\* the step by which item i's scrapeWithRetry leaves its loop with every
\* attempt failed: attempt number MAX_RETRIES ends, the error log gets a line
\* and the item's record is delivered
Exhausts(i) ==
    /\ pc[i] \in {"creating", "page"}
    /\ pc'[i] = "pushed"
    /\ errorLog' # errorLog

\* C13: the record scrapeWithRetry returns after all MAX_RETRIES attempts
\* failed carries the descriptor's SKU and Type, a failure reason as Title
\* ('FAILED after MAX_RETRIES attempts'), Description 'FAILED' and empty Price,
\* NumberOfReviews and Rating.
C13_ExhaustedRecordShape ==
    [][\A i \in Items :
         Exhausts(i) =>
            /\ attempt[i] = MAX_RETRIES
            /\ Len(results') = Len(results) + 1
            /\ SubSeq(results', 1, Len(results)) = results
            /\ LET r == results'[Len(results')]
               IN  /\ r.SKU = skus[i].SKU
                   /\ r.Source = skus[i].Type
                   /\ r.Title = STR_FAILED_after \o NumToStr(MAX_RETRIES) \o STR_attempts
                   /\ r.Description = FALLBACK_DESCRIPTION
                   /\ r.Price = EMPTY_STRING
                   /\ r.NumberOfReviews = EMPTY_STRING
                   /\ r.Rating = EMPTY_STRING]_vars

\* an item of each kind of retailer tag has been given up: the records of a
\* mapped and of an unmapped descriptor are both fallback records
C13_Witness ==
    /\ \E i \in Items : /\ Mapped(i) /\ pc[i] = "pushed"
                        /\ \A j \in RecordsFor(i) : IsExhaustedRecord(results[j])
    /\ \E i \in Items : /\ ~Mapped(i) /\ pc[i] = "done"
                        /\ \A j \in RecordsFor(i) : IsExhaustedRecord(results[j])
    /\ Len(errorLog) = 2

\* the error-log lines naming item i's Type and SKU
LogLinesFor(i) ==
    { l \in 1..Len(errorLog) :
        errorLog[l].Type = skus[i].Type /\ errorLog[l].SKU = skus[i].SKU }

\* a record built by createFallbackProduct
IsFallbackRecord(r) ==
    /\ r.Description = FALLBACK_DESCRIPTION
    /\ r.Price = EMPTY_STRING
    /\ r.NumberOfReviews = EMPTY_STRING
    /\ r.Rating = EMPTY_STRING

\* C14: for every descriptor whose record has been delivered, the error log
\* holds exactly one line naming its Type and SKU if the record is a fallback
\* record, and none if the record was extracted. (The lists of this
\* specification hold no descriptor twice.)
C14_OneLogLinePerFallback ==
    \A i \in Items :
        pc[i] \in {"pushed", "done"} =>
            \A j \in RecordsFor(i) :
                Cardinality(LogLinesFor(i)) = IF IsFallbackRecord(results[j]) THEN 1 ELSE 0

\* the protocol's outcome on page p for a descriptor of retailer t when the
\* browser calls of soft-block dismissal (s) and of humanization (h) reject
BestEffortOutcome(t, p, s, h) ==
    fetchProductData([p EXCEPT !.softBlockThrows = s, !.humanizeThrows = h],
                     [Type |-> t, SKU |-> <<"B","0">>])

\* on every page, failing dismissal or humanization leaves the outcome as it is
BestEffortInsensitive ==
    \A t \in {STR_Amazon, STR_Walmart, STR_Target}, p \in Pages, s \in BOOLEAN, h \in BOOLEAN :
        BestEffortOutcome(t, p, s, h) = BestEffortOutcome(t, p, FALSE, FALSE)

\* C15: a failure inside soft-block dismissal, inside humanization or inside
\* the cleanup of page and context never propagates. An item of a mapped
\* retailer whose attempts met a well-formed product page, with or without
\* such a failure, ends with the record extracted from that page, delivered by
\* its first attempt and without an error-log line; and on every page the
\* protocol's outcome does not depend on those failures.
C15_BestEffortNeverPropagates ==
    /\ BestEffortInsensitive
    /\ \A i \in Items :
          (/\ pc[i] \in {"pushed", "done"}
           /\ Mapped(i)
           /\ seen[i] \in {"good", "softBlockThrows", "humanizeThrows"}) =>
              /\ RecordsFor(i) # {}
              /\ \A j \in RecordsFor(i) :
                    results[j] = ProtocolOutcomes[skus[i].Type][GoodPage].product
              /\ LogLinesFor(i) = {}

\* an Amazon item was delivered by an attempt whose soft-block dismissal
\* failed and whose cleanup failed as well (it left its context open)
C15_Witness ==
    \E i \in Items :
        /\ skus[i].Type = STR_Amazon
        /\ pc[i] \in {"pushed", "done"}
        /\ seen[i] = "softBlockThrows"
        /\ leaked = 1
        /\ RecordsFor(i) # {}

\* item i's attempt obtains its context: `context` goes from null to the
\* object returned by createBrowserContext
ObtainsContext(i) == context[i] = "null" /\ context'[i] = "open"

\* C16: each attempt creates its own fresh context (its page is created from
\* that context inside the same attempt). The context an attempt obtains was
\* never returned to any earlier attempt, of this item or another, and is held
\* by no other item; every context held is one that was created.
C16_FreshContextPerAttempt ==
    [][\A i \in Items :
         ObtainsContext(i) =>
            /\ contextId'[i] > 0
            /\ contextId'[i] \notin 1..created
            /\ \A j \in Items \ {i} :
                  /\ contextId'[j] # contextId'[i]
                  /\ context[j] = "open" => contextId[j] \in 1..created]_vars

\* two items hold a context at the same moment, one of them in a retry
C16_Witness ==
    \E i, j \in Items :
        /\ i # j
        /\ context[i] = "open" /\ context[j] = "open"
        /\ contextId[i] > 0 /\ contextId[j] > 0
        /\ attempt[i] >= 2

\* the step in which item i's attempt ends after running the protocol on a
\* page of behaviour b (in runs that observe the behaviour of every attempt)
AttemptMet(i, b) == pc[i] = "page" /\ pc'[i] # "page" /\ seen'[i] = b

\* the pages on which the protocol returns, without raising, a record whose
\* Title is 'ERROR' or contains 'Robot Check'
SoftFailurePages == {"blankTitle", "unavailable", "robotCheckTitle"}

\* C18: an attempt that returns a record whose Title is the sentinel 'ERROR'
\* or contains 'Robot Check' is treated exactly like an attempt that threw:
\* the record is not delivered; while fewer than MAX_RETRIES attempts were made
\* the item backs off and tries again, and when it was attempt MAX_RETRIES the
\* item resolves to the 'FAILED after MAX_RETRIES attempts' record with one
\* line written to the error log.
C18_SoftFailureLikeThrown ==
    [][\A i \in Items : \A b \in SoftFailurePages :
         (Mapped(i) /\ AttemptMet(i, b)) =>
            /\ \A j \in 1..Len(results') : ~IsSoftFailure(results'[j])
            /\ IF attempt[i] < MAX_RETRIES
               THEN /\ pc'[i] = "backoff"
                    /\ attempt'[i] = attempt[i]
                    /\ results' = results
                    /\ errorLog' = errorLog
               ELSE /\ attempt[i] = MAX_RETRIES
                    /\ pc'[i] = "pushed"
                    /\ results' = Append(results, ExhaustedProduct(skus[i]))
                    /\ errorLog' = Append(errorLog, ExhaustedLogLine(skus[i]))]_vars

\* an item of a mapped retailer is in its last attempt after each attempt
\* before returned, without raising, a record titled 'Robot Check'
C18_Witness ==
    \E i \in Items :
        /\ Mapped(i)
        /\ seen[i] = "robotCheckTitle"
        /\ ProtocolOutcomes[skus[i].Type][CHOOSE p \in Pages : p.name = "robotCheckTitle"].kind
              = "product"
        /\ attempt[i] = MAX_RETRIES
        /\ pc[i] = "page"

\* the stages of an attempt in the order of the claim
StageOrder ==
    <<"selectors", "navigate", "softBlock", "botCheck", "humanize", "contentWait",
      "extract", "validate">>

\* C17: within one attempt the stages run in the fixed order selector
\* lookup/URL resolution, navigate, soft-block dismissal, bot-detection check,
\* humanization, content-wait, extraction, validation; a stage that raises is
\* the last one executed, so extraction is performed only after navigation,
\* bot check and content-wait have all succeeded; and the call ends with the
\* error of the stage that raised, or else with the record.
C17_StagesInOrder ==
    LET n == Len(run.trace)
    IN  /\ n <= Len(StageOrder)
        /\ \A k \in 1..n : run.trace[k].stage = StageOrder[k]
        /\ \A k \in 1..(n - 1) : ~run.trace[k].threw
        /\ \A k \in 1..n :
              run.trace[k].stage = "extract" =>
                 \A s \in {"navigate", "botCheck", "contentWait"} :
                    \E m \in 1..(k - 1) : run.trace[m].stage = s /\ ~run.trace[m].threw
        /\ run.stage = "ended" =>
              /\ run.outcome = fetchProductData(run.page, run.sku)
              /\ (run.outcome.kind = "error") = run.trace[n].threw

\* the call has ended in the content-wait: navigation and bot check passed,
\* extraction and validation were not run
C17_Witness ==
    /\ run.stage = "ended"
    /\ Len(run.trace) = 6
    /\ run.trace[6].stage = "contentWait"
    /\ run.trace[6].threw
    /\ run.outcome = Thrown(MSG_TitleTimeout)

\* what a candidate yields when it is the only one tried
Yields(page, sel, dataType) == getTextFromSelectors(page, <<sel>>, dataType)

\* the value of the first candidate, in list order, that yields a non-empty
\* result; the empty string when none does
RECURSIVE FirstNonEmpty(_, _, _)
FirstNonEmpty(page, selectorList, dataType) ==
    IF selectorList = <<>> THEN EMPTY_STRING
    ELSE IF Yields(page, Head(selectorList), dataType) # EMPTY_STRING
         THEN Yields(page, Head(selectorList), dataType)
         ELSE FirstNonEmpty(page, Tail(selectorList), dataType)

\* the followed call has run its extraction stage
Extracted == \E k \in 1..Len(run.trace) : run.trace[k].stage = "extract"

\* C19: for every field, extraction returns the value of the first candidate
\* of the field's list that yields a non-empty result, a candidate that is
\* missing, invisible, raises or yields the empty string being skipped in
\* favour of the next one; the empty string is returned only when no candidate
\* yields a non-empty value; and extraction never raises.
C19_FirstNonEmptyCandidate ==
    Extracted =>
        LET selectors == SELECTORS_MAP[run.sku.Type]
        IN  /\ run.raw.Title = FirstNonEmpty(run.page, selectors.title, "none")
            /\ run.raw.Description = FirstNonEmpty(run.page, selectors.description, "none")
            /\ run.raw.Price = FirstNonEmpty(run.page, selectors.price, "none")
            /\ run.raw.NumberOfReviews = FirstNonEmpty(run.page, selectors.reviews, "reviews")
            /\ run.raw.Rating = FirstNonEmpty(run.page, selectors.rating, "rating")
            /\ \A k \in 1..Len(run.trace) :
                  run.trace[k].stage = "extract" => ~run.trace[k].threw

\* candidate sel fails or is invisible on the page: it matches no element, or
\* its element is hidden or fails to give its text, and it carries no
\* JSON-LD value or content attribute that its kind of locator would read
FailsOrInvisible(page, sel, dataType) ==
    \/ sel \notin DOMAIN page.dom
    \/ LET el == page.dom[sel]
       IN  /\ ~el.visible \/ el.throws
           /\ ~(StartsWith(sel, STR_script) /\ el.text # <<>> /\ JsonLookup(el, dataType) # <<>>)
           /\ ~(StartsWith(sel, STR_meta) /\ el.content # <<>>)

\* candidate sel is visible with non-empty text
VisibleNonEmpty(page, sel) ==
    /\ sel \in DOMAIN page.dom
    /\ page.dom[sel].visible
    /\ ~page.dom[sel].throws
    /\ page.dom[sel].text # <<>>

\* the first two candidates of the list fail or are invisible and the third
\* is visible with non-empty text
ThirdWins(page, selectorList, dataType) ==
    /\ Len(selectorList) >= 3
    /\ FailsOrInvisible(page, selectorList[1], dataType)
    /\ FailsOrInvisible(page, selectorList[2], dataType)
    /\ VisibleNonEmpty(page, selectorList[3])

\* C20: for a field whose first two candidates fail or are invisible and whose
\* third candidate is visible with non-empty text, the extracted value equals
\* the third candidate's text after that field's cleaning transform.
C20_ThirdCandidateCleaned ==
    Extracted =>
        LET selectors == SELECTORS_MAP[run.sku.Type]
            text(list) == run.page.dom[list[3]].text
        IN  /\ ThirdWins(run.page, selectors.title, "none") =>
                  run.data.Title = CleanTitle(text(selectors.title))
            /\ ThirdWins(run.page, selectors.description, "none") =>
                  run.data.Description = CleanDescription(text(selectors.description))
            /\ ThirdWins(run.page, selectors.price, "none") =>
                  run.data.Price = CleanPrice(text(selectors.price))
            /\ ThirdWins(run.page, selectors.reviews, "reviews") =>
                  run.data.NumberOfReviews = CleanReviews(text(selectors.reviews))
            /\ ThirdWins(run.page, selectors.rating, "rating") =>
                  run.data.Rating = CleanRating(text(selectors.rating))

\* the extraction has run on an Amazon page whose first price candidate is
\* hidden, whose second one fails to give its text and whose third one shows
\* ' 3.50 usd': the record's Price is '3.50'
C20_Witness ==
    /\ Extracted
    /\ run.sku.Type = STR_Amazon
    /\ ThirdWins(run.page, SELECTORS_Amazon.price, "none")
    /\ SELECTORS_Amazon.price[1] \in DOMAIN run.page.dom
    /\ SELECTORS_Amazon.price[2] \in DOMAIN run.page.dom
    /\ run.page.dom[SELECTORS_Amazon.price[2]].throws
    /\ run.page.dom[SELECTORS_Amazon.price[3]].text = <<" ","3",".","5","0"," ","u","s","d">>
    /\ run.data.Price = <<"3",".","5","0">>

\* every character of s is a digit, or '.' where dots are allowed
OnlyDigits(s, dots) ==
    \A k \in 1..Len(s) : IsDigit(s[k]) \/ (dots /\ s[k] = ".")

\* C21: the price, review-count and rating cleaning transforms are
\* idempotent: applied to their own output they return it unchanged; and the
\* output holds only digits (and '.' for price and rating).
C21_CleaningIdempotent ==
    run.stage = "cleaned" =>
        /\ CleanPrice(run.data.Price) = run.data.Price
        /\ CleanReviews(run.data.NumberOfReviews) = run.data.NumberOfReviews
        /\ CleanRating(run.data.Rating) = run.data.Rating
        /\ OnlyDigits(run.data.Price, TRUE)
        /\ OnlyDigits(run.data.NumberOfReviews, FALSE)
        /\ OnlyDigits(run.data.Rating, TRUE)

\* the raw text '4out of5' has been cleaned: price '45', reviews '45',
\* rating '4'
C21_Witness ==
    /\ run.stage = "cleaned"
    /\ run.raw.Price = <<"4">> \o STR_out_of \o <<"5">>
    /\ run.data.Price = <<"4", "5">>
    /\ run.data.NumberOfReviews = <<"4", "5">>
    /\ run.data.Rating = <<"4">>

\* C22: resolveProductUrl is a pure function of the descriptor: for Type
\* 'Amazon' it returns 'https://www.amazon.com/dp/' followed by the SKU, for
\* Type 'Walmart' 'https://www.walmart.com/ip/' followed by the SKU, whatever
\* was called before.
C22_ResolveUrlPure ==
    run.stage = "resolved" =>
        /\ run.outcome.kind = "value"
        /\ run.sku.Type = STR_Amazon =>
              run.outcome.message =
                 <<"h","t","t","p","s",":","/","/","w","w","w",".","a","m","a","z","o","n",".","c","o","m","/","d","p","/">>
                 \o run.sku.SKU
        /\ run.sku.Type = STR_Walmart =>
              run.outcome.message =
                 <<"h","t","t","p","s",":","/","/","w","w","w",".","w","a","l","m","a","r","t",".","c","o","m","/","i","p","/">>
                 \o run.sku.SKU

\* the URL of Walmart item '98' has been resolved after a call for another
\* descriptor, which followed a call of the cleaning transforms
C22_Witness ==
    /\ run.stage = "resolved"
    /\ run.sku = [Type |-> STR_Walmart, SKU |-> <<"9","8">>]
    /\ run.outcome.message =
          <<"h","t","t","p","s",":","/","/","w","w","w",".","w","a","l","m","a","r","t",".","c","o","m","/","i","p","/","9","8">>
    /\ run.raw.Price = <<"$", "4">>

\* C23: when this.browser is null, scrapeSingleSKU returns, without raising
\* and without creating a context or page, a fallback record carrying the
\* descriptor's SKU and Type with an empty Price. An attempt entered with no
\* browser goes nowhere near createBrowserContext, and it ends with that
\* record returned (scrapeWithRetry accepts and delivers it: no catch, no
\* backoff, no further attempt).
C23_NoBrowserFallback ==
    [][\A i \in Items :
         /\ (pc[i] \in {"queued", "backoff"} /\ pc'[i] \notin {"queued", "backoff"}
                /\ browser' = "null")
               => pc'[i] = "nobrowser"
         /\ (pc[i] = "nobrowser" /\ pc'[i] # "nobrowser") =>
               /\ pc'[i] = "pushed"
               /\ context' = context /\ context[i] = "null"
               /\ leaked' = leaked /\ created' = created
               /\ errorLog' = errorLog
               /\ Len(results') = Len(results) + 1
               /\ LET r == results'[Len(results')]
                  IN  /\ r.SKU = skus[i].SKU
                      /\ r.Source = skus[i].Type
                      /\ r.Price = EMPTY_STRING
                      /\ r.Description = FALLBACK_DESCRIPTION]_vars

\* close() has completed during a run and an item admitted afterwards has
\* delivered the record of an attempt made without a browser
C23_Witness ==
    /\ browser = "null"
    /\ closePc = "closed"
    /\ \E i \in Items :
          /\ pc[i] \in {"pushed", "done"}
          /\ \E j \in RecordsFor(i) : results[j].Title = MSG_BrowserNotInitialized

\* C24: processSKUs applied to an empty descriptor list resolves to an empty
\* list, performing no attempt, creating no context and writing no error-log
\* line: once the browser is launched the call has returned, with nothing
\* queued, started, delivered, leaked or logged.
C24_EmptyListResolvesEmpty ==
    skus = <<>> =>
        /\ loopPc \in {"init", "returned", "rejected"}
        /\ browser = "open" => loopPc = "returned"
        /\ results = <<>>
        /\ errorLog = <<>>
        /\ queue = <<>> /\ activeWorkers = <<>> /\ raceOn = {}
        /\ Active = {}
        /\ leaked = 0 /\ created = 0

\* processSKUs([]) has returned the empty list
C24_Witness ==
    /\ skus = <<>>
    /\ loopPc = "returned"
    /\ browser = "open"
    /\ results = <<>>

\* C25: the CONFIG object exported by the utils module that defines
\* ProductScraper has CONCURRENCY_LIMIT equal to 3 and MAX_RETRIES equal to 3
\* (for either variant of the module), as read next to a newly constructed
\* scraper.
C25_ConfigDefaults ==
    (browser = "null" /\ loopPc = "init") =>
        LET modules == <<CONFIG_Pool, CONFIG_Batch>>
        IN  \A m \in 1..Len(modules) :
               /\ "CONCURRENCY_LIMIT" \in DOMAIN modules[m]
               /\ modules[m].CONCURRENCY_LIMIT = 3
               /\ "MAX_RETRIES" \in DOMAIN modules[m]
               /\ modules[m].MAX_RETRIES = 3

\* the pages on which the protocol raises a navigation, detection or timeout
\* error
ErrorPages ==
    {"gotoThrows", "noResponse", "status404", "status503", "botTitle", "titleTimeout"}

C27_OneBackoffBetweenAttempts ==
    [][\A i \in Items :
         /\ (pc[i] # "backoff" /\ pc'[i] = "backoff") =>
               /\ pc[i] \in {"creating", "page"}
               /\ attempt[i] \in 1..(MAX_RETRIES - 1)
               /\ attempt'[i] = attempt[i]
               /\ context'[i] = "null"
               /\ results' = results
               /\ errorLog' = errorLog
         /\ (attempt[i] >= 1 /\ attempt'[i] = attempt[i] + 1) => pc[i] = "backoff"
         /\ (pc[i] = "backoff" /\ pc'[i] # "backoff") =>
               /\ attempt'[i] = attempt[i] + 1
               /\ pc'[i] \in {"creating", "nobrowser"}
         /\ (pc[i] \in {"creating", "page"} /\ pc'[i] \notin {"creating", "page"}
               /\ attempt[i] = MAX_RETRIES) => pc'[i] = "pushed"
         /\ Len(results') > Len(results) =>
               \E j \in Items : pc[j] # "backoff" /\ pc'[j] = "pushed"
         /\ pc[i] \in {"pushed", "done"} => pc'[i] # "backoff"]_vars

\* an item is in its second delay, between attempts MAX_RETRIES - 1 and
\* MAX_RETRIES, while another item has already delivered its record
C27_Witness ==
    \E i, j \in Items :
        /\ pc[i] = "backoff"
        /\ attempt[i] = MAX_RETRIES - 1
        /\ context[i] = "null"
        /\ pc[j] \in {"pushed", "done"}

\* the decimal numeral of an HTTP status, character by character
StatusText(st) ==
    LET digit(d) == <<"0","1","2","3","4","5","6","7","8","9">>[d + 1]
    IN  <<digit(st \div 100), digit((st \div 10) % 10), digit(st % 10)>>

\* C28: navigateToPage fails exactly when the navigation gives no response
\* object or a response with status 400 or more: no response is 'No Response',
\* status 404 is 'Page Not Found (404)', every other status from 400 up is
\* 'HTTP Error: ' followed by the status, and a response with a status below
\* 400 passes.
C28_NavigationFailures ==
    run.stage = "navigated" =>
        LET st == run.page.status
        IN  /\ (run.outcome.kind = "error") <=> (st = 0 \/ st >= 400)
            /\ (st # 0 /\ st < 400) => run.outcome.kind = "void"
            /\ st = 0 => run.outcome.message = <<"N","o"," ","R","e","s","p","o","n","s","e">>
            /\ st = 404 =>
                  run.outcome.message =
                     <<"P","a","g","e"," ","N","o","t"," ","F","o","u","n","d"," ","(","4","0","4",")">>
            /\ (st >= 400 /\ st # 404) =>
                  run.outcome.message =
                     <<"H","T","T","P"," ","E","r","r","o","r",":"," ">> \o StatusText(st)

\* a response with status 400 has been refused as 'HTTP Error: 400'
C28_Witness ==
    /\ run.stage = "navigated"
    /\ run.page.status = 400
    /\ run.outcome.kind = "error"
    /\ run.outcome.message = <<"H","T","T","P"," ","E","r","r","o","r",":"," ","4","0","0">>

\* C29: validateExtractedData raises if and only if the extracted Title is
\* empty; with an empty Title it raises 'Product Currently Unavailable' when
\* the body text contains 'Currently unavailable' and 'Validation Failed:
\* Content loaded but Title is empty' otherwise; any non-empty Title is
\* accepted, whatever the body says.
C29_ValidationByTitle ==
    run.stage = "validated" =>
        LET marker == <<"C","u","r","r","e","n","t","l","y"," ","u","n","a","v","a","i","l","a","b","l","e">>
            body   == run.page.bodyText
            marked == \E k \in 1..Len(body) :
                         /\ k + Len(marker) - 1 <= Len(body)
                         /\ SubSeq(body, k, k + Len(marker) - 1) = marker
        IN  /\ (run.outcome.kind = "error") <=> (run.data.Title = <<>>)
            /\ run.data.Title # <<>> => run.outcome.kind = "void"
            /\ (run.data.Title = <<>> /\ marked) =>
                  run.outcome.message =
                     <<"P","r","o","d","u","c","t"," ","C","u","r","r","e","n","t","l","y"," ","U","n","a","v","a","i","l","a","b","l","e">>
            /\ (run.data.Title = <<>> /\ ~marked) =>
                  run.outcome.message =
                     <<"V","a","l","i","d","a","t","i","o","n"," ","F","a","i","l","e","d",":"," ","C","o","n","t","e","n","t"," ","l","o","a","d","e","d"," ","b","u","t"," ","T","i","t","l","e"," ","i","s"," ","e","m","p","t","y">>

\* an empty Title over a body that carries the marker after other text has
\* been refused as unavailable
C29_Witness ==
    /\ run.stage = "validated"
    /\ run.data.Title = <<>>
    /\ run.page.bodyText = <<"N","o","w",":"," ","C","u","r","r","e","n","t","l","y"," ","u","n","a","v","a","i","l","a","b","l","e">>
    /\ run.outcome.kind = "error"
    /\ run.outcome.message # <<"V","a","l","i","d","a","t","i","o","n"," ","F","a","i","l","e","d",":"," ","C","o","n","t","e","n","t"," ","l","o","a","d","e","d"," ","b","u","t"," ","T","i","t","l","e"," ","i","s"," ","e","m","p","t","y">>

\* the items of the batch variant whose scrapeSingleSKU is under way
BatchActive == { k \in Items : pc[k] \in {"creating", "page"} }

\* C30: the batch variant processes the descriptors in consecutive chunks of
\* at most CONFIG.CONCURRENCY_LIMIT: the items that start together are the
\* next ones of the list, at most CONCURRENCY_LIMIT of them; nothing of a
\* later chunk starts before every item of the chunks before it has completed,
\* its record collected, and the delay after that chunk is over; so never more
\* than CONCURRENCY_LIMIT items are active.
C30_ChunksOneAfterAnother ==
    [][LET limit   == 3
           started == { k \in Items : pc[k] = "queued" /\ pc'[k] # "queued" }
       IN  /\ Cardinality(BatchActive') <= limit
           /\ started # {} =>
                 LET first == CHOOSE k \in started : \A j \in started : k <= j
                     last  == CHOOSE k \in started : \A j \in started : j <= k
                 IN  /\ started = first..last
                     /\ Cardinality(started) <= limit
                     /\ \A j \in Items : j < first => pc[j] = "done"
                     /\ \A j \in Items : j > last => pc'[j] = "queued"
                     /\ Len(results) = first - 1
                     /\ BatchActive = {}
                     /\ loopPc = IF first = 1 THEN "init" ELSE "delay"
                     /\ last = Len(skus) \/ Cardinality(started) = limit
           /\ (loopPc # "delay" /\ loopPc' = "delay") =>
                 /\ BatchActive = {}
                 /\ Len(results') = Len(results) + Cardinality({ k \in Items : pc[k] = "settled" })]_vars

\* the second chunk is under way while the records of the first are collected
C30_Witness ==
    /\ Len(skus) = 4
    /\ pc[4] = "page"
    /\ Len(results) = 3
    /\ \A k \in 1..3 : pc[k] = "done"

\* C31: in the batch variant, once init has succeeded, processSKUs never
\* rejects, whatever the outcome of context creation, of the protocol and of
\* context.close(); and when it returns, every descriptor has yielded exactly
\* one record, in results, carrying its SKU and Type.
C31_BatchNeverRejects ==
    browser = "open" =>
        /\ loopPc # "rejected"
        /\ \A k \in Items : pc[k] # "failed"
        /\ loopPc = "returned" =>
              /\ Len(results) = Len(skus)
              /\ \A k \in Items :
                    /\ results[k].SKU = skus[k].SKU
                    /\ results[k].Source = skus[k].Type

\* C32: however many times init() is invoked, also by invocations that
\* overlap before the first launch has completed, at most one browser is
\* launched, and no launched browser is left unreferenced by the scraper.
C32_AtMostOneBrowser ==
    inits.calls > 0 =>
        /\ inits.launched <= 1
        /\ inits.launched = IF inits.ref # 0 THEN 1 ELSE 0

\* C33: the pool never loses or duplicates a descriptor. Once the loop runs,
\* every descriptor is in exactly one place: still queued, in a slot of
\* activeWorkers with its record not yet delivered, or with its record in
\* results; so (records in results) + (slots still working) + (queued) is the
\* input length, and at the exit, with no slot and no queue left, results has
\* the input length. A worker's record is appended to results before its slot
\* is removed (in between the slot is still there and the record is counted
\* once), and a completed worker removes its own entry and no other.
C33_PoolConservation ==
    /\ [](loopPc \in {"race", "returned"} =>
            LET slots   == { activeWorkers[k] : k \in 1..Len(activeWorkers) }
                working == { w \in slots : pc[w] # "pushed" }
            IN  /\ Len(results) + Cardinality(working) + Len(queue) = Len(skus)
                /\ Cardinality(slots) = Len(activeWorkers)
                /\ \A i \in Items :
                      /\ pc[i] = "pushed" => i \in slots
                      /\ pc[i] = "done" => i \notin slots
                      /\ pc[i] \in {"nobrowser", "creating", "page", "backoff"} => i \in slots
                /\ (\A i \in Items : pc[i] # "pushed") =>
                      Len(results) + Len(activeWorkers) + Len(queue) = Len(skus)
                /\ loopPc = "returned" =>
                      /\ activeWorkers = <<>>
                      /\ queue = <<>>
                      /\ Len(results) = Len(skus))
    /\ [][\A i \in Items :
            /\ (pc[i] # "pushed" /\ pc'[i] = "pushed") =>
                  /\ Len(results') = Len(results) + 1
                  /\ activeWorkers' = activeWorkers
            /\ (pc[i] = "pushed" /\ pc'[i] # "pushed") =>
                  /\ pc'[i] = "done"
                  /\ results' = results
                  /\ Len(activeWorkers') = Len(activeWorkers) - 1
                  /\ { activeWorkers'[k] : k \in 1..Len(activeWorkers') }
                        = { activeWorkers[k] : k \in 1..Len(activeWorkers) } \ {i}]_vars

\* the loop waits, of a list of four, with two records collected, their two
\* slots removed, and the other two slots working: the third descriptor
\* completed before the second
C33_Witness ==
    /\ loopPc = "race"
    /\ Len(skus) = 4
    /\ Len(results) = 2
    /\ Len(activeWorkers) = 2
    /\ queue = <<>>
    /\ pc[1] = "done"
    /\ pc[2] \in {"creating", "page", "backoff"}
    /\ pc[3] = "done"

\* C34: in the pool variant the number of open browser contexts, created and
\* not yet closed, is at every instant at most CONCURRENCY_LIMIT, and it is
\* zero when processSKUs has resolved.
C34_OpenContextsBounded ==
    LET held == Cardinality({ i \in Items : context[i] = "open" })
        open == held + leaked
    IN  /\ open <= CONCURRENCY_LIMIT
        /\ loopPc = "returned" => open = 0

C36_NoSoftFailureRecordReturned ==
    \A j \in 1..Len(results) :
        LET title   == results[j].Title
            keyword == <<"R","o","b","o","t"," ","C","h","e","c","k">>
        IN  /\ title # <<"E","R","R","O","R">>
            /\ \A k \in 1..Len(title) :
                  k + Len(keyword) - 1 <= Len(title) =>
                     SubSeq(title, k, k + Len(keyword) - 1) # keyword

\* an item each of whose MAX_RETRIES attempts returned the record titled
\* 'ERROR' has completed, with another record in results
C36_Witness ==
    \E i \in Items :
        /\ Mapped(i)
        /\ seen[i] = "blankTitle"
        /\ ProtocolOutcomes[skus[i].Type][CHOOSE p \in Pages : p.name = "blankTitle"]
              = Returned([ProtocolOutcomes[skus[i].Type][GoodPage].product
                             EXCEPT !.Title = <<"E","R","R","O","R">>])
        /\ pc[i] = "done"
        /\ loopPc = "returned"
        /\ Len(results) = 1

\* C37: in the pool variant extractData always returns a non-empty Title, an
\* empty trimmed title being replaced by 'ERROR'; so the validation stage that
\* fetchProductData runs on that result never raises, and fetchProductData
\* ends with neither 'Product Currently Unavailable' nor 'Validation Failed'.
C37_ValidationNeverRaises ==
    LET extracted == \E k \in 1..Len(run.trace) : run.trace[k].stage = "extract"
        blank(s)  == \A k \in 1..Len(s) : s[k] \in {" ", "\t", "\n", "\r"}
    IN  /\ extracted =>
              /\ run.data.Title # <<>>
              /\ blank(run.raw.Title) => run.data.Title = <<"E","R","R","O","R">>
        /\ \A k \in 1..Len(run.trace) :
              run.trace[k].stage = "validate" => ~run.trace[k].threw
        /\ (run.stage = "ended" /\ run.outcome.kind = "error") =>
              /\ run.outcome.message #
                    <<"P","r","o","d","u","c","t"," ","C","u","r","r","e","n","t","l","y"," ","U","n","a","v","a","i","l","a","b","l","e">>
              /\ run.outcome.message #
                    <<"V","a","l","i","d","a","t","i","o","n"," ","F","a","i","l","e","d",":"," ","C","o","n","t","e","n","t"," ","l","o","a","d","e","d"," ","b","u","t"," ","T","i","t","l","e"," ","i","s"," ","e","m","p","t","y">>

\* fetchProductData has returned the record titled 'ERROR' for the page whose
\* title is blank and whose body says 'Currently unavailable.'
C37_Witness ==
    /\ run.stage = "ended"
    /\ run.page.name = "unavailable"
    /\ run.raw.Title = <<" ", " ", " ">>
    /\ run.trace[Len(run.trace)] = [stage |-> "validate", threw |-> FALSE]
    /\ run.outcome.kind = "product"
    /\ run.outcome.product.Title = <<"E","R","R","O","R">>

\* C38: in the batch variant the list is in input order: the record at
\* position k of results carries the SKU and Type of descriptor k, at every
\* moment and so for the whole list when processSKUs returns, whatever the
\* order in which the items of a chunk completed.
C38_BatchInputOrder ==
    /\ Len(results) <= Len(skus)
    /\ \A k \in 1..Len(results) :
          /\ results[k].SKU = skus[k].SKU
          /\ results[k].Source = skus[k].Type
    /\ loopPc = "returned" => Len(results) = Len(skus)

\* processSKUs has returned the records of four descriptors in input order,
\* although in the first chunk the second descriptor failed, and so
\* completed, before the first
C38_Witness ==
    /\ loopPc = "returned"
    /\ Len(skus) = 4
    /\ Len(results) = 4
    /\ Len(errorLog) >= 2
    /\ skus[1] # skus[2]
    /\ errorLog[1].SKU = skus[2].SKU /\ errorLog[1].Type = skus[2].Type
    /\ errorLog[2].SKU = skus[1].SKU /\ errorLog[2].Type = skus[1].Type
    /\ results[1].SKU = skus[1].SKU /\ results[1].Source = skus[1].Type

====
